---- MODULE Spec2Model ----
(***************************************************************************)
(* biliUtility: the event ingestion and aggregation pipeline.              *)
(*   - WidgetState (app/state.py): running totals, milestone wrap-around,  *)
(*     announcement history map, announcement queue, member queue.         *)
(*   - TTSProcessor (app/services/tts.py): the queue consumer task.        *)
(*   - socket handlers (app/routers/sockets.py): autoplay toggle, manual   *)
(*     play, queue clearing, read flags.                                   *)
(*   - LogWatcherService (app/services/watcher.py) and                     *)
(*     ProcessedFilesTracker (app/state.py): the log tailer.               *)
(* Monetary values are floats in the program and bounded integers here.    *)
(* WidgetState.recent_messages is appended to by add_message and read by   *)
(* no code of the repository; it is not part of the state below.           *)
(***************************************************************************)
EXTENDS Integers, Sequences, FiniteSets, TLC

\* ------------------------------------------------------------------ bounds
Unit == 50
MaxValueUnits == 4
MaxRevenueUnits == 12
MaxGifts == 3
MaxMsgs == 2
MaxQueue == 2
MaxTasks == 2
MaxFiles == 3
MaxLines == 2
MaxDays == 2
MaxRuns == 2
MaxFaults == 2

\* ------------------------------------------------------- program constants
DEFAULT_MILESTONE_GOAL == 500

\* None where an index into msgs or tasks is expected
None == 0

DM == "dm"
FREE_GIFT == "free_gift"
PAID_GIFT == "paid_gift"
GUARD == "guard"
SUPERCHAT == "superchat"
MessageType == {DM, FREE_GIFT, PAID_GIFT, GUARD, SUPERCHAT}

VARIABLES
    \* WidgetState: aggregate counters
    paid_gift_total_value, paid_gift_count, superchat_total_value,
    membership_total_value, guard_counts, total_guard_count,
    milestone_progress, milestone_count,
    \* GiftConfigState.milestone_goal
    milestone_goal,
    \* ParsedMessage objects retained by the program, in creation order; a
    \* queue entry, the history map and tts_playing hold indices into msgs
    msgs,
    \* WidgetState: announcement state
    tts_messages, tts_queue, tts_playing, tts_autoplay, member_queue,
    \* WidgetState.lock: "free", or the handler that holds it while it is
    \* suspended on an emit (every other critical section has no suspension
    \* point and is one step)
    lock,
    \* TTSProcessor: running, task (index into tasks or None), the consumer
    \* tasks created so far, and whether a stop() call is awaiting its task
    running, task, tasks, stopping,
    \* LogWatcherService._watch_loop: its locals and its position
    \*   wpc  "scan" (top of the loop), "hist" (the loop over target_files[:-1],
    \*        at index hist_i), "switch" (4. Manage Tailing), "tail" (5. Tail loop),
    \*        "sleep" (asyncio.sleep before the next iteration), "done" (the
    \*        task has ended)
    current_tail_file, active_handle, last_offset, target_files, hist_i, wpc,
    \* ProcessedFilesTracker.processed_files
    processed_files,
    \* the log directory: the files of the room in lexical order, each the
    \* number of complete lines written to it so far, and the day in each name
    files, file_days,
    \* datetime.now() as a day number
    today,
    \* accessed_file.txt: the names appended to it, in order
    ledger,
    \* the number of times the process has been started, and the number of
    \* I/O errors raised so far
    runs, faults,
    \* history of the run, read by the properties only:
    \*   revenue      the sum of the qualifying values recorded so far
    \*   replay       per goal g, the <<progress, count>> that recording the
    \*                same events against g from the initial state produces
    \*   last_op      the operation called last ("off_on": toggle_autoplay(on)
    \*                called right after toggle_autoplay(off))
    \*   last_goal    the argument of recalculate_milestones, if it was that
    \*   records_only every operation so far was a record call
    \*   drained      the number of queue entries that operation removed
    \*   delivered    the lines handed to _process_line so far, as <<file, line>>
    revenue, replay, last_op, last_goal, records_only, drained, delivered,
    \* ChatLogParser.parse_line: the line it was last called with, what it
    \* returned, and (for the properties) what the line was built from
    line, parsed, built,
    \* MemberConfig.enable_webhook_<tier> and the webhook_url_<tier> credentials,
    \* by tier; hook is the last trigger_webhook call: its argument, what it
    \* returned and the URL it posted to ("none": no outbound call)
    enable_webhook, webhook_urls, hook,
    \* TTSEngineManager: the two fields; the engines constructed and not yet
    \* disposed; how many were constructed; tts_config.engine; and, for each
    \* thread, where it is in the manager
    _current_engine, _current_engine_type, live, engines_created,
    tts_config_engine, eng,
    \* the entry whose webhook or rendering call has failed, while the consumer
    \* holds that entry
    failed,
    \* the line the writer has begun in the newest file and not yet ended:
    \* "none", "written" (its first part is in the file), "read" (the tail
    \* step has read that part), "rest" (the line was ended after that)
    frag,
    \* WidgetState.initial_guard_count
    initial_guard_count,
    \* plugin mode: the on_sdk_message coroutines handed to the loop, in the
    \* order of delivery, each with its event and its position; and the
    \* deliveries in the order in which their add_message ran
    sdk, added

aggVars == <<paid_gift_total_value, paid_gift_count, superchat_total_value,
             membership_total_value, guard_counts, total_guard_count,
             milestone_progress, milestone_count>>
cfgVars == <<milestone_goal>>
parseVars == <<line, parsed, built>>
hookVars == <<enable_webhook, webhook_urls, hook>>
\* the state of the services that are called on their own
engVars == <<_current_engine, _current_engine_type, live, engines_created,
            tts_config_engine, eng>>
failVars == <<failed>>
fragVars == <<frag>>
\* state that only the specifications made for it change
seedVars == <<initial_guard_count>>
sdkVars == <<sdk, added>>
otherVars == <<fragVars, seedVars, sdkVars>>
callVars == <<parseVars, hookVars, engVars, failVars, otherVars>>
msgVars == <<msgs, tts_messages, tts_queue, tts_playing, tts_autoplay, member_queue>>
histVars == <<revenue, replay, last_op, last_goal, records_only, drained>>
procVars == <<running, task, tasks, stopping>>
dirVars == <<file_days, today>>
runVars == <<ledger, runs, faults>>
watchVars == <<current_tail_file, active_handle, last_offset, target_files, hist_i,
               wpc, processed_files, files, delivered, dirVars, runVars>>
vars == <<aggVars, cfgVars, msgVars, lock, procVars, watchVars, histVars, callVars>>

\* what an operation leaves in the history variables
History(op, goal, removed) ==
    /\ last_op' = op
    /\ last_goal' = goal
    /\ drained' = removed
    /\ records_only' = (records_only /\ op = "record")

\* ------------------------------------------------------------ input sets
\* event values: nothing, one unit, and one large enough to wrap a small goal
\* several times in one event
Values == {0, Unit, MaxValueUnits * Unit}
MaxRevenue == MaxRevenueUnits * Unit
\* goals a gift_config.json or a save request may hold, all positive
GoalChoices == {Unit, 3 * Unit, DEFAULT_MILESTONE_GOAL}
\* arguments of recalculate_milestones, with the rejected ones
RecalcGoals == GoalChoices \cup {0, 0 - Unit}
Users == {"u1"}
\* timestamps (whole seconds) of the lines; only their order is read
Timestamps == {1, 2}
GuardTypes == {"captain"}

\* ------------------------------------------------------------ parser.py
\* unique_id: f"{timestamp.isoformat()}_{username}_{kind}" (guard: + guard_type)
\* (a 4-tuple, the last component empty for the other kinds)
UniqueId(m) ==
    IF m.type = GUARD THEN <<m.ts, m.user, "guard", m.guard_type>>
    ELSE IF m.type = SUPERCHAT THEN <<m.ts, m.user, "sc", "">>
    ELSE <<m.ts, m.user, m.type, "">>

\* tts_enabled=True is set by _parse_guard and _parse_superchat only
TtsEnabled(m) == m.type \in {GUARD, SUPERCHAT}

\* the object a parsed line becomes: is_read defaults to False (models.py)
NewObject(m) ==
    [ts |-> m.ts, user |-> m.user, type |-> m.type, guard_type |-> m.guard_type,
     unique_id |-> UniqueId(m), nsegs |-> m.nsegs, is_read |-> FALSE]

\* --------------------------------------------------- WidgetState.add_message
\* the single-subtraction slip: if instead of while
WrapOnce(progress, count, goal) ==
    IF progress >= goal THEN <<progress - goal, count + 1>> ELSE <<progress, count>>

RECURSIVE WrapLoop(_, _, _)
WrapLoop(progress, count, goal) ==
    IF progress >= goal THEN WrapLoop(progress - goal, count + 1, goal)
    ELSE <<progress, count>>

\* the slip of assigning the quotient to the count instead of adding to it
WrapAssign(progress, count, goal) == <<progress % goal, progress \div goal>>

\* while self.milestone_progress >= milestone_goal: subtract, count += 1
Wrap(progress, count, goal) == WrapLoop(progress, count, goal)

\* the slip of counting free gifts toward the milestone as well
QualifyingWithFree(m) == m.type \in {FREE_GIFT, PAID_GIFT, GUARD, SUPERCHAT}

Qualifying(m) == m.type \in {PAID_GIFT, GUARD, SUPERCHAT}

\* the history map after add_message: tts_messages[unique_id] = message
\* (new is the index the message gets in msgs)
HistoryPut(m, new) ==
    IF TtsEnabled(m)
    THEN [k \in DOMAIN tts_messages \cup {UniqueId(m)} |->
            IF k = UniqueId(m) THEN new ELSE tts_messages[k]]
    ELSE tts_messages

\* the slip of leaving the autoplay flag out of the condition
AutoEnqueueAlways(m, new) ==
    IF m.type \in {GUARD, SUPERCHAT} /\ ~NewObject(m).is_read
    THEN Append(tts_queue, [msg |-> new, mark |-> TRUE])
    ELSE tts_queue

\* the slip of putting a recorded event before the entries that wait
AutoEnqueueFront(m, new) ==
    IF m.type \in {GUARD, SUPERCHAT} /\ tts_autoplay /\ ~NewObject(m).is_read
    THEN <<[msg |-> new, mark |-> TRUE]>> \o tts_queue
    ELSE tts_queue

\* if self.tts_autoplay and not message.is_read: put((message, True))
AutoEnqueue(m, new) ==
    IF m.type \in {GUARD, SUPERCHAT} /\ tts_autoplay /\ ~NewObject(m).is_read
    THEN Append(tts_queue, [msg |-> new, mark |-> TRUE])
    ELSE tts_queue

\* add_message but for the coroutine that calls it
AddMessageBut(m) ==
    LET stored == TtsEnabled(m) \/ m.type = GUARD
        new == Len(msgs) + 1
        w == Wrap(milestone_progress + m.value, milestone_count, milestone_goal)
    IN  \* bounds of the model: retained objects, counted gifts, revenue
        /\ stored => Len(msgs) < MaxMsgs
        /\ m.type = PAID_GIFT => paid_gift_count + m.quantity <= MaxGifts
        /\ Qualifying(m) => revenue + m.value <= MaxRevenue
        /\ AutoEnqueue(m, new) # tts_queue => Len(tts_queue) < MaxQueue
        \* async with self.lock
        /\ lock = "free"
        /\ msgs' = IF stored THEN Append(msgs, NewObject(m)) ELSE msgs
        /\ tts_messages' = HistoryPut(m, new)
        /\ paid_gift_total_value' =
             IF m.type = PAID_GIFT THEN paid_gift_total_value + m.value
             ELSE paid_gift_total_value
        /\ paid_gift_count' =
             IF m.type = PAID_GIFT THEN paid_gift_count + m.quantity
             ELSE paid_gift_count
        /\ membership_total_value' =
             IF m.type = GUARD THEN membership_total_value + m.value
             ELSE membership_total_value
        /\ superchat_total_value' =
             IF m.type = SUPERCHAT THEN superchat_total_value + m.value
             ELSE superchat_total_value
        /\ guard_counts' =
             IF m.type = GUARD
             THEN [guard_counts EXCEPT ![m.guard_type] = @ + m.duration]
             ELSE guard_counts
        /\ total_guard_count' =
             IF m.type = GUARD THEN total_guard_count + m.duration
             ELSE total_guard_count
        /\ milestone_progress' = IF Qualifying(m) THEN w[1] ELSE milestone_progress
        /\ milestone_count' = IF Qualifying(m) THEN w[2] ELSE milestone_count
        /\ member_queue' = IF m.type = GUARD THEN Append(member_queue, new)
                           ELSE member_queue
        /\ tts_queue' = AutoEnqueue(m, new)
        /\ revenue' = IF Qualifying(m) THEN revenue + m.value ELSE revenue
        /\ replay' = IF Qualifying(m)
                     THEN [g \in GoalChoices |->
                             Wrap(replay[g][1] + m.value, replay[g][2], g)]
                     ELSE replay
        /\ History("record", 0, 0)
        /\ UNCHANGED <<tts_playing, tts_autoplay, cfgVars, parseVars, hookVars, engVars,
                       failVars, fragVars, seedVars, lock, procVars, watchVars>>

add_message(m) == AddMessageBut(m) /\ UNCHANGED sdkVars

\* ------------------------------------------ main.py: run.on_sdk_message
\* tts_text is set for members and superchats (_process_add_member,
\* _process_add_super_chat); text and gift messages have none
TtsText(m) == m.type \in {GUARD, SUPERCHAT}

\* MsgHandler._safe_callback: run_coroutine_threadsafe(self._callback(msg), loop)
sdk_safe_callback(m) ==
    /\ sdk' = Append(sdk, [ev |-> m, pc |-> "scheduled"])
    /\ UNCHANGED <<aggVars, cfgVars, parseVars, hookVars, engVars, failVars, fragVars,
                   seedVars, added, msgVars, lock, procVars, watchVars, histVars>>

\* the loop starts the coroutines in the order they were handed over.
\* process_message_for_tts awaits the translation task when there is tts_text;
\* without it nothing suspends and add_message runs at once
on_sdk_message(k) ==
    /\ sdk[k].pc = "scheduled"
    /\ \A j \in 1..(k - 1) : sdk[j].pc # "scheduled"
    /\ IF TtsText(sdk[k].ev)
       THEN /\ sdk' = [sdk EXCEPT ![k].pc = "translate"]
            /\ UNCHANGED <<aggVars, cfgVars, parseVars, hookVars, engVars, failVars,
                           fragVars, seedVars, added, msgVars, lock, procVars,
                           watchVars, histVars>>
       ELSE /\ AddMessageBut(sdk[k].ev)
            /\ sdk' = [sdk EXCEPT ![k].pc = "broadcast"]
            /\ added' = Append(added, k)

\* message.translation = await translate_task; await state.add_message(msg)
on_sdk_translated(k) ==
    /\ sdk[k].pc = "translate"
    /\ AddMessageBut(sdk[k].ev)
    /\ sdk' = [sdk EXCEPT ![k].pc = "broadcast"]
    /\ added' = Append(added, k)

\* await broadcast_message(msg)
on_sdk_broadcast(k) ==
    /\ sdk[k].pc = "broadcast"
    /\ sdk' = [sdk EXCEPT ![k].pc = "done"]
    /\ UNCHANGED <<aggVars, cfgVars, parseVars, hookVars, engVars, failVars, fragVars,
                   seedVars, added, msgVars, lock, procVars, watchVars, histVars>>

\* --------------------------------------- WidgetState.set_initial_guard_count
\* async with self.lock: initial_guard_count = count; total_guard_count = count
set_initial_guard_count(count) ==
    /\ lock = "free"
    /\ initial_guard_count' = count
    /\ total_guard_count' = count
    /\ History("set_initial_guard_count", 0, 0)
    /\ UNCHANGED <<paid_gift_total_value, paid_gift_count, superchat_total_value,
                   membership_total_value, guard_counts, milestone_progress,
                   milestone_count, cfgVars, parseVars, hookVars, engVars, failVars,
                   fragVars, sdkVars, msgVars, lock, procVars, watchVars, revenue,
                   replay>>

\* ----------------------------------------- WidgetState.recalculate_milestones
\* the slip of leaving the memberships out of the total
TotalRevenueGiftsOnly == paid_gift_total_value + superchat_total_value

TotalRevenue ==
    paid_gift_total_value + membership_total_value + superchat_total_value

\* the slip of starting over from zero when the goal is rejected
RecalculatedOrZero(new_goal) ==
    IF new_goal <= 0 THEN <<0, 0>>
    ELSE <<TotalRevenue \div new_goal, TotalRevenue % new_goal>>

\* if new_goal <= 0: return; else int(total_revenue // new_goal) and
\* total_revenue % new_goal
Recalculated(new_goal) ==
    IF new_goal <= 0 THEN <<milestone_count, milestone_progress>>
    ELSE <<TotalRevenue \div new_goal, TotalRevenue % new_goal>>

recalculate_milestones(new_goal) ==
    /\ lock = "free"
    /\ milestone_count' = Recalculated(new_goal)[1]
    /\ milestone_progress' = Recalculated(new_goal)[2]
    /\ History("recalc", new_goal, 0)
    /\ UNCHANGED <<paid_gift_total_value, paid_gift_count, superchat_total_value,
                   membership_total_value, guard_counts, total_guard_count,
                   cfgVars, callVars, msgVars, lock, procVars, watchVars, revenue, replay>>

\* ------------------------------------------- routers/config.py, GiftConfigState
\* save_gift_config: recalculate_milestones is called for a goal that is given
\* and positive; gift_config.update then stores any goal that is given
\* (setattr for every value that is not None, then int(v))
save_gift_config(given, goal) ==
    /\ lock = "free"
    /\ IF given /\ goal > 0
       THEN /\ milestone_count' = TotalRevenue \div goal
            /\ milestone_progress' = TotalRevenue % goal
       ELSE UNCHANGED <<milestone_count, milestone_progress>>
    /\ milestone_goal' = IF given THEN goal ELSE milestone_goal
    /\ History("save_gift_config", IF given THEN goal ELSE 0, 0)
    /\ UNCHANGED <<paid_gift_total_value, paid_gift_count, superchat_total_value,
                   membership_total_value, guard_counts, total_guard_count,
                   callVars, msgVars, lock, procVars, watchVars, revenue, replay>>

\* add_message of a qualifying event under a goal that is not positive:
\* milestone_progress >= milestone_goal stays true however often the goal is
\* subtracted, so the while loop does not end; the coroutine never leaves
\* `async with self.lock` and never yields
add_message_hangs(m) ==
    /\ Qualifying(m)
    /\ milestone_goal <= 0
    /\ lock = "free"
    /\ lock' = "add_message"
    /\ UNCHANGED <<aggVars, cfgVars, callVars, msgs, tts_messages, tts_queue,
                   tts_playing, tts_autoplay, member_queue, procVars, watchVars,
                   histVars>>

\* ------------------------------------------------------ services/parser.py
\* A line is a sequence of characters, a character a string.  Characters
\* outside ASCII are written by their pinyin ("zeng" is 赠); a whole timestamp
\* is one character ("t1", "t2"; "t?" is text strptime rejects) and so is a
\* kind tag; "bom" is U+FEFF.
\* ' 赠送了 '
GAVE == <<" ", "zeng", "song", "le", " ">>
\* ' x '
TIMES == <<" ", "x", " ">>
\* '，'
FWCOMMA == <<"fwcomma">>
\* '总价 '
TOTAL == <<"zong", "jia", " ">>
\* '：'
FWCOLON == <<"fwcolon">>
\* ' 购买了 '
BOUGHT == <<" ", "gou", "mai", "le", " ">>
\* ' 发送了 '
SENT == <<" ", "fa", "song", "le", " ">>
\* ' 元的醒目留言：'
SC_MARK == <<" ", "yuan", "de", "xing", "mu", "liu", "yan", "fwcolon">>
\* "元" and "银瓜子"
YUAN == <<"yuan">>
SILVER == <<"yin", "gua", "zi">>
\* GUARD_TYPES = tuple(GUARD_CONFIG.keys()): 舰长, 提督, 总督
GUARD_TYPES == << <<"jian", "zhang">>, <<"ti", "du">>, <<"zong", "du">> >>
\* '未知舰队等级'
UNKNOWN_GUARD == <<"wei", "zhi", "jian", "dui", "deng", "ji">>

DigitChars == <<"0", "1", "2", "3", "4", "5", "6", "7", "8", "9">>

\* what int() and float() raise, strptime too
ValueError == -1

\* str.isdigit() of one character
isdigit(c) == \E d \in 1..10 : DigitChars[d] = c

isspace(c) == c = " "

\* s[lo:hi] as Python slices: a negative index counts from the end, an index
\* past either end is clamped
Slice(s, lo, hi) ==
    LET n == Len(s)
        Clamp(i) == IF i < 0 THEN (IF n + i < 0 THEN 0 ELSE n + i)
                    ELSE IF i > n THEN n ELSE i
        from == Clamp(lo)
        to == Clamp(hi)
    IN  IF from >= to THEN <<>> ELSE [i \in 1..(to - from) |-> s[from + i]]

\* s[lo:]
SliceFrom(s, lo) == Slice(s, lo, Len(s))

\* s.find(sub, start): the least index from start on at which sub begins, or -1
find(s, sub, start) ==
    LET at == {i \in start..(Len(s) - Len(sub)) :
                  \A j \in 1..Len(sub) : s[i + j] = sub[j]}
    IN  IF at = {} THEN -1 ELSE CHOOSE i \in at : \A k \in at : i <= k

\* s.strip()
strip(s) ==
    LET ink == {i \in 1..Len(s) : ~isspace(s[i])}
    IN  IF ink = {} THEN <<>>
        ELSE LET first == CHOOSE i \in ink : \A k \in ink : i <= k
                 last == CHOOSE i \in ink : \A k \in ink : i >= k
             IN  Slice(s, first - 1, last)

\* s.lstrip('\ufeff')
RECURSIVE lstrip_bom(_)
lstrip_bom(s) ==
    IF s # <<>> /\ Head(s) = "bom" THEN lstrip_bom(Tail(s)) ELSE s

\* the number a run of digits writes
RECURSIVE NumberOf(_)
NumberOf(s) ==
    IF s = <<>> THEN 0
    ELSE LET d == CHOOSE k \in 1..10 : DigitChars[k] = s[Len(s)]
         IN  10 * NumberOf(Slice(s, 0, Len(s) - 1)) + (d - 1)

\* int(s): surrounding white space is ignored; anything but a run of digits
\* raises ValueError (no sign and no underscore is among the characters here)
int(s) ==
    LET t == strip(s)
    IN  IF t # <<>> /\ \A i \in 1..Len(t) : isdigit(t[i]) THEN NumberOf(t)
        ELSE ValueError

\* float(s): as int(s) here, the characters holding no point and no exponent
float(s) == int(s)

\* datetime.strptime(timestamp_str, '%Y-%m-%d %H:%M:%S')
strptime(timestamp_str) ==
    IF timestamp_str = <<"t1">> THEN 1
    ELSE IF timestamp_str = <<"t2">> THEN 2
    ELSE ValueError

\* timestamp.isoformat()
isoformat(timestamp) == IF timestamp = 1 THEN <<"t1">> ELSE <<"t2">>

\* what parse_line returns for None, and an exception on its way up
NoneResult == [type |-> "None"]
Raised == [type |-> "raise"]
\* parse_line has not been called
NotCalled == [type |-> "not called"]

\* parts = content.split('：', 1)
_parse_dm(timestamp, content) ==
    LET cut == find(content, FWCOLON, 0)
        username == IF cut = -1 THEN content ELSE Slice(content, 0, cut)
        message == IF cut = -1 THEN <<>> ELSE SliceFrom(content, cut + 1)
    IN  [type |-> DM, timestamp |-> timestamp, username |-> username,
         message |-> message,
         unique_id |-> isoformat(timestamp) \o <<"_">> \o username \o <<"_", "dm">>]

_parse_gift(timestamp, content, msg_type, currency) ==
    LET username_end == find(content, GAVE, 0)
        username == Slice(content, 0, username_end)
        gift_start == username_end + 5
        gift_end == find(content, TIMES, gift_start)
        gift_name == Slice(content, gift_start, gift_end)
        quantity_start == gift_end + 3
        quantity_end == find(content, FWCOMMA, quantity_start)
        quantity == int(Slice(content, quantity_start, quantity_end))
        value_start == find(content, TOTAL, 0) + 3
        value_end == find(content, <<" ">> \o currency, 0)
        value == float(Slice(content, value_start, value_end))
        type_suffix == IF msg_type = FREE_GIFT THEN "free_gift" ELSE "paid_gift"
    IN  IF quantity = ValueError \/ value = ValueError THEN Raised
        ELSE [type |-> msg_type, timestamp |-> timestamp, username |-> username,
              gift_name |-> gift_name, quantity |-> quantity, value |-> value,
              currency |-> currency,
              unique_id |-> isoformat(timestamp) \o <<"_">> \o username
                              \o <<"_", type_suffix>>]

_parse_free_gift(timestamp, content) ==
    _parse_gift(timestamp, content, FREE_GIFT, SILVER)

_parse_paid_gift(timestamp, content) ==
    _parse_gift(timestamp, content, PAID_GIFT, YUAN)

\* GUARD_CONFIG.get(guard_type, {}).get('webhook_type')
WebhookType(guard_type) ==
    IF guard_type = GUARD_TYPES[1] THEN "captain"
    ELSE IF guard_type = GUARD_TYPES[2] THEN "admiral"
    ELSE IF guard_type = GUARD_TYPES[3] THEN "governor"
    ELSE "None"

\* the end of the run, from index i on, of digits or of characters that are
\* not white space
RECURSIVE RunEnd(_, _, _)
RunEnd(s, i, digits) ==
    IF i < Len(s) /\ (IF digits THEN isdigit(s[i + 1]) ELSE ~isspace(s[i + 1]))
    THEN RunEnd(s, i + 1, digits)
    ELSE i

\* re.match(r'^(.+?) 购买了 (\d+)([^\s]+) (舰长|提督|总督)，总价 ([\d.]+) 元$'):
\* with the user name ending at index u, the groups the pattern takes, or
\* <<>> when it does not match there.  \d+ takes every digit of its run but
\* leaves one character to [^\s]+, which runs to the next space.
GuardMatchAt(content, u) ==
    LET word == u + 5
        digits_end == RunEnd(content, word, TRUE)
        word_end == RunEnd(content, word, FALSE)
        duration_end == IF digits_end < word_end THEN digits_end ELSE word_end - 1
        type_start == word_end + 1
        tail_start == type_start + 2
        value_start == tail_start + 4
        value_end == RunEnd(content, value_start, TRUE)
    IN  IF /\ u >= 1
           /\ Slice(content, u, word) = BOUGHT
           /\ duration_end > word
           /\ Slice(content, word_end, type_start) = <<" ">>
           /\ \E g \in 1..3 : Slice(content, type_start, tail_start) = GUARD_TYPES[g]
           /\ Slice(content, tail_start, value_start) = FWCOMMA \o TOTAL
           /\ value_end > value_start
           /\ SliceFrom(content, value_end) = <<" ">> \o YUAN
        THEN <<[username |-> Slice(content, 0, u),
                duration |-> int(Slice(content, word, duration_end)),
                guard_type |-> Slice(content, type_start, tail_start),
                value |-> float(Slice(content, value_start, value_end))]>>
        ELSE <<>>

\* (.+?) is lazy: the first place the rest of the pattern matches from
GuardMatch(content) ==
    LET at == {u \in 1..Len(content) : GuardMatchAt(content, u) # <<>>}
    IN  IF at = {} THEN <<>>
        ELSE GuardMatchAt(content, CHOOSE u \in at : \A k \in at : u <= k)

\* the else branch: find(' 购买了 '), the digits after it, the first of
\* GUARD_TYPES found anywhere in the content, find('总价 ') and find(' 元')
GuardScan(content) ==
    LET username_end == find(content, BOUGHT, 0)
        duration_start == username_end + 5
        duration_end == RunEnd(content, duration_start, TRUE)
        found == {g \in 1..3 : find(content, GUARD_TYPES[g], 0) # -1}
        value_start == find(content, TOTAL, 0) + 3
        value_end == find(content, <<" ">> \o YUAN, 0)
    IN  [username |-> Slice(content, 0, username_end),
         duration |-> int(Slice(content, duration_start, duration_end)),
         guard_type |-> IF found = {} THEN UNKNOWN_GUARD
                        ELSE GUARD_TYPES[CHOOSE g \in found : \A k \in found : g <= k],
         value |-> float(Slice(content, value_start, value_end))]

_parse_guard(timestamp, content, original_line) ==
    LET match == GuardMatch(content)
        got == IF match # <<>> THEN match[1] ELSE GuardScan(content)
    IN  IF got.duration = ValueError \/ got.value = ValueError THEN Raised
        ELSE [type |-> GUARD, timestamp |-> timestamp, username |-> got.username,
              duration |-> got.duration, guard_type |-> got.guard_type,
              value |-> got.value, currency |-> YUAN, tts_enabled |-> TRUE,
              webhook_type |-> WebhookType(got.guard_type),
              unique_id |-> isoformat(timestamp) \o <<"_">> \o got.username
                              \o <<"_", "guard", "_">> \o got.guard_type]

_parse_superchat(timestamp, content) ==
    LET username_end == find(content, SENT, 0)
        username == Slice(content, 0, username_end)
        amount_start == username_end + 5
        amount_end == find(content, SC_MARK, 0)
        amount == float(Slice(content, amount_start, amount_end))
        message_start == amount_end + 8
        message == SliceFrom(content, message_start)
    IN  IF amount = ValueError THEN Raised
        ELSE [type |-> SUPERCHAT, timestamp |-> timestamp, username |-> username,
              amount |-> amount, message |-> message, currency |-> YUAN,
              tts_enabled |-> TRUE,
              unique_id |-> isoformat(timestamp) \o <<"_">> \o username
                              \o <<"_", "sc">>]

\* except Exception as e: logger.error(...); return None
Caught(result) == IF result.type = "raise" THEN NoneResult ELSE result

parse_line(text) ==
    LET timestamp_end == find(text, <<" ", "[">>, 0)
        timestamp_str == lstrip_bom(Slice(text, 0, timestamp_end))
        timestamp == strptime(timestamp_str)
        type_start == timestamp_end + 2
        type_end == find(text, <<"]">>, type_start)
        msg_type_str == Slice(text, type_start, type_end)
        content_str == strip(SliceFrom(text, type_end + 2))
    IN  IF timestamp_end = -1 THEN NoneResult
        ELSE IF timestamp = ValueError THEN Caught(Raised)
        ELSE IF type_end = -1 THEN NoneResult
        \* msg_type = MessageType(msg_type_str); except ValueError: return None
        ELSE IF ~(Len(msg_type_str) = 1 /\ msg_type_str[1] \in MessageType)
        THEN NoneResult
        ELSE LET msg_type == msg_type_str[1]
             IN  Caught(CASE msg_type = DM -> _parse_dm(timestamp, content_str)
                          [] msg_type = FREE_GIFT -> _parse_free_gift(timestamp, content_str)
                          [] msg_type = PAID_GIFT -> _parse_paid_gift(timestamp, content_str)
                          [] msg_type = GUARD -> _parse_guard(timestamp, content_str, text)
                          [] msg_type = SUPERCHAT -> _parse_superchat(timestamp, content_str))

\* The lines parse_line is called with are written out from their parts, as
\* the sub-parsers expect them; omit names the delimiters left out.
Digits(n) ==
    IF n < 10 THEN <<DigitChars[n + 1]>>
    ELSE IF n < 100 THEN <<DigitChars[(n \div 10) + 1], DigitChars[(n % 10) + 1]>>
    ELSE <<DigitChars[(n \div 100) + 1], DigitChars[((n \div 10) % 10) + 1],
           DigitChars[(n % 10) + 1]>>

Piece(name, omit, chars) == IF name \in omit THEN <<>> ELSE chars

Currency(tag) == IF tag = FREE_GIFT THEN SILVER ELSE YUAN

\* the delimiters of each kind's sub-grammar, by name
Delimiters(tag) ==
    CASE tag = DM -> {"colon"}
      [] tag \in {FREE_GIFT, PAID_GIFT} -> {"gave", "x", "comma", "total", "currency"}
      [] tag = GUARD -> {"bought", "total", "currency"}
      [] tag = SUPERCHAT -> {"sent", "mark"}
      [] OTHER -> {}

DelimiterChars(tag, name) ==
    CASE name = "colon" -> FWCOLON
      [] name = "gave" -> GAVE
      [] name = "x" -> TIMES
      [] name = "comma" -> FWCOMMA
      [] name = "total" -> IF tag = GUARD THEN FWCOMMA \o TOTAL ELSE TOTAL
      [] name = "currency" -> <<" ">> \o Currency(tag)
      [] name = "bought" -> BOUGHT
      [] name = "sent" -> SENT
      [] name = "mark" -> SC_MARK

LineHeader(b) ==
    LET t == IF b.header = "bad_timestamp" THEN <<"t?">> ELSE isoformat(b.timestamp)
    IN  CASE b.header = "bom" -> <<"bom">> \o t \o <<" ", "[", b.tag, "]", " ">>
          [] b.header = "no_open" -> t \o <<" ", b.tag, "]", " ">>
          [] b.header = "no_close" -> t \o <<" ", "[", b.tag, " ">>
          [] OTHER -> t \o <<" ", "[", b.tag, "]", " ">>

LineContent(b) ==
    LET D(name) == Piece(name, b.omit, DelimiterChars(b.tag, name))
    IN  CASE b.tag = DM -> b.username \o D("colon") \o b.message
          [] b.tag \in {FREE_GIFT, PAID_GIFT} ->
               b.username \o D("gave") \o b.name \o D("x") \o Digits(b.quantity)
                 \o D("comma") \o D("total") \o Digits(b.value) \o D("currency")
          \* "<n>个月 <type>"
          [] b.tag = GUARD ->
               b.username \o D("bought") \o Digits(b.quantity) \o <<"ge", "yue", " ">>
                 \o b.name \o D("total") \o Digits(b.value) \o D("currency")
          [] b.tag = SUPERCHAT ->
               b.username \o D("sent") \o Digits(b.value) \o D("mark") \o b.message
          [] OTHER -> b.username \o <<" ">> \o b.message

LineOf(b) == LineHeader(b) \o LineContent(b)

\* user names: plain, and one ending in 总价
ParserUsers == {<<"u">>, <<"u", "zong", "jia">>}
\* gift names: plain, and 元宵; guard lines carry a guard type there
GiftNames == {<<"g">>, <<"yuan", "xiao">>}
Names(tag) ==
    IF tag \in {FREE_GIFT, PAID_GIFT} THEN GiftNames
    ELSE IF tag = GUARD THEN {GUARD_TYPES[1], GUARD_TYPES[3]}
    ELSE {<<>>}
Quantities == {1, 12}
Texts(tag) == IF tag \in {DM, SUPERCHAT} THEN {<<"m">>, <<"m", " ", "x", " ", "m">>} ELSE {<<>>}
\* a kind tag MessageType does not know
UNKNOWN_TAG == "interact"
Tags == MessageType \cup {UNKNOWN_TAG}
Headers == {"ok", "bom", "bad_timestamp", "no_open", "no_close"}

NotBuilt ==
    [header |-> "none", tag |-> "none", timestamp |-> 1, username |-> <<>>,
     name |-> <<>>, quantity |-> 0, value |-> 0, message |-> <<>>, omit |-> {}]

InitParser ==
    /\ line = <<>>
    /\ parsed = NotCalled
    /\ built = NotBuilt

\* _process_line: msg = ChatLogParser.parse_line(line)
parse ==
    /\ line # <<>>
    /\ parsed.type = "not called"
    /\ parsed' = parse_line(line)
    /\ UNCHANGED <<aggVars, cfgVars, msgVars, lock, procVars, watchVars, histVars,
                   line, built, hookVars, engVars, failVars, otherVars>>

\* ----------------------------------------------------- services/webhook.py
Tiers == {"captain", "admiral", "governor"}
\* a tier name get_webhook_urls() has no key for
UNKNOWN_TIER == "unknown"
\* credentials: '' (the default) or a URL
Urls == {"", "https://hook"}

\* the slip of never looking at the enable flags
TierDisabledNever(webhook_type) == FALSE

\* if webhook_type == '<tier>' and not member_config.enable_webhook_<tier>
TierDisabled(webhook_type) ==
    webhook_type \in Tiers /\ ~enable_webhook[webhook_type]

\* ok is what BiliHTTPClient.post returns: True, or False when requests.post
\* or raise_for_status raised
trigger_webhook(webhook_type, ok) ==
    /\ hook' =
         IF TierDisabled(webhook_type) THEN
             [type |-> webhook_type, result |-> FALSE, posted |-> "none"]
         ELSE IF webhook_type \notin DOMAIN webhook_urls THEN
             [type |-> webhook_type, result |-> FALSE, posted |-> "none"]
         ELSE IF webhook_urls[webhook_type] = "" THEN
             [type |-> webhook_type, result |-> FALSE, posted |-> "none"]
         ELSE [type |-> webhook_type, result |-> ok,
               posted |-> webhook_urls[webhook_type]]
    /\ UNCHANGED <<aggVars, cfgVars, msgVars, lock, procVars, watchVars, histVars,
                   parseVars, enable_webhook, webhook_urls, engVars, failVars,
                   otherVars>>

\* before any call, with the defaults of MemberConfig and the credentials
InitWebhook ==
    /\ enable_webhook = [t \in Tiers |-> FALSE]
    /\ webhook_urls = [t \in Tiers |-> ""]
    /\ hook = [type |-> "not called", result |-> FALSE, posted |-> "none"]

\* ---------------------------------------------------- tts_engines/manager.py
MaxEngines == 3
EngineTypes == {"kokoro", "aws_polly"}
\* the event loop thread, where the request handlers run, and the thread
\* asyncio.to_thread runs _play_text_sync on
Threads == {"handler", "worker"}
NoType == "None"
Idle == [pc |-> "idle", engine_type |-> NoType, made |-> None, op |-> "none"]

\* the manager methods hold no lock: a thread may be preempted between any two
\* of the steps below
EngineVarsBut(t, frame) ==
    /\ eng' = [eng EXCEPT ![t] = frame]
    /\ UNCHANGED <<aggVars, cfgVars, msgVars, lock, procVars, watchVars, histVars,
                   parseVars, hookVars, failVars, otherVars>>

\* _play_text_sync: engine = tts_manager.get_engine()
get_engine ==
    /\ eng["worker"].pc = "idle"
    /\ IF _current_engine = None
       THEN EngineVarsBut("worker", [pc |-> "check", engine_type |-> tts_config_engine,
                                     made |-> None, op |-> "get_engine"])
       ELSE EngineVarsBut("worker", Idle)
    /\ UNCHANGED <<_current_engine, _current_engine_type, live, engines_created,
                   tts_config_engine>>

\* save_tts_config: if data.engine and data.engine != tts_config.engine
save_tts_config(engine) ==
    /\ eng["handler"].pc = "idle"
    /\ IF engine # tts_config_engine
       THEN EngineVarsBut("handler", [pc |-> "check", engine_type |-> engine,
                                      made |-> None, op |-> "save_tts_config"])
       ELSE EngineVarsBut("handler", Idle)
    /\ UNCHANGED <<_current_engine, _current_engine_type, live, engines_created,
                   tts_config_engine>>

\* test_tts: current_engine = tts_manager.switch_engine(engine_type)
test_tts(engine_type) ==
    /\ eng["handler"].pc = "idle"
    /\ EngineVarsBut("handler", [pc |-> "check", engine_type |-> engine_type,
                                 made |-> None, op |-> "test_tts"])
    /\ UNCHANGED <<_current_engine, _current_engine_type, live, engines_created,
                   tts_config_engine>>

\* save_credentials: tts_manager.dispose_current()
save_credentials ==
    /\ eng["handler"].pc = "idle"
    /\ EngineVarsBut("handler", [pc |-> "dispose_current", engine_type |-> NoType,
                                 made |-> None, op |-> "save_credentials"])
    /\ UNCHANGED <<_current_engine, _current_engine_type, live, engines_created,
                   tts_config_engine>>

\* switch_engine line 77: already using this engine
switch_check(t) ==
    /\ eng[t].pc = "check"
    /\ IF _current_engine_type = eng[t].engine_type /\ _current_engine # None
       THEN EngineVarsBut(t, [eng[t] EXCEPT !.pc = "return"])
       ELSE EngineVarsBut(t, [eng[t] EXCEPT !.pc = "dispose"])
    /\ UNCHANGED <<_current_engine, _current_engine_type, live, engines_created,
                   tts_config_engine>>

\* lines 85-87: self._current_engine.dispose()
switch_dispose(t) ==
    /\ eng[t].pc = "dispose"
    /\ IF _current_engine # None
       THEN /\ live' = live \ {_current_engine}
            /\ EngineVarsBut(t, [eng[t] EXCEPT !.pc = "clear"])
       ELSE /\ live' = live
            /\ EngineVarsBut(t, [eng[t] EXCEPT !.pc = "create"])
    /\ UNCHANGED <<_current_engine, _current_engine_type, engines_created,
                   tts_config_engine>>

\* lines 88-89
switch_clear(t) ==
    /\ eng[t].pc = "clear"
    /\ _current_engine' = None
    /\ _current_engine_type' = NoType
    /\ EngineVarsBut(t, [eng[t] EXCEPT !.pc = "create"])
    /\ UNCHANGED <<live, engines_created, tts_config_engine>>

\* lines 94-99, the right-hand side: KokoroEngine() or PollyEngine()
switch_create(t) ==
    /\ eng[t].pc = "create"
    /\ engines_created < MaxEngines
    /\ engines_created' = engines_created + 1
    /\ live' = live \cup {engines_created + 1}
    /\ EngineVarsBut(t, [eng[t] EXCEPT !.pc = "assign", !.made = engines_created + 1])
    /\ UNCHANGED <<_current_engine, _current_engine_type, tts_config_engine>>

\* lines 102-108: the constructor raised; fall back to kokoro, or raise
switch_create_fails(t) ==
    /\ eng[t].pc = "create"
    /\ IF eng[t].engine_type # "kokoro"
       THEN EngineVarsBut(t, [eng[t] EXCEPT !.pc = "check", !.engine_type = "kokoro"])
       ELSE EngineVarsBut(t, Idle)
    /\ UNCHANGED <<_current_engine, _current_engine_type, live, engines_created,
                   tts_config_engine>>

\* lines 96, 99, the store: self._current_engine = ...
switch_assign(t) ==
    /\ eng[t].pc = "assign"
    /\ _current_engine' = eng[t].made
    /\ EngineVarsBut(t, [eng[t] EXCEPT !.pc = "settype"])
    /\ UNCHANGED <<_current_engine_type, live, engines_created, tts_config_engine>>

\* line 110
switch_settype(t) ==
    /\ eng[t].pc = "settype"
    /\ _current_engine_type' = eng[t].engine_type
    /\ EngineVarsBut(t, [eng[t] EXCEPT !.pc = "return"])
    /\ UNCHANGED <<_current_engine, live, engines_created, tts_config_engine>>

\* return self._current_engine; save_tts_config goes on to tts_config.update
switch_return(t) ==
    /\ eng[t].pc = "return"
    /\ tts_config_engine' =
         IF eng[t].op = "save_tts_config" THEN eng[t].engine_type
         ELSE tts_config_engine
    /\ EngineVarsBut(t, Idle)
    /\ UNCHANGED <<_current_engine, _current_engine_type, live, engines_created>>

\* dispose_current lines 201-203
dispose_current(t) ==
    /\ eng[t].pc = "dispose_current"
    /\ IF _current_engine # None
       THEN /\ live' = live \ {_current_engine}
            /\ EngineVarsBut(t, [eng[t] EXCEPT !.pc = "dispose_clear"])
       ELSE /\ live' = live
            /\ EngineVarsBut(t, Idle)
    /\ UNCHANGED <<_current_engine, _current_engine_type, engines_created,
                   tts_config_engine>>

\* dispose_current lines 204-205
dispose_clear(t) ==
    /\ eng[t].pc = "dispose_clear"
    /\ _current_engine' = None
    /\ _current_engine_type' = NoType
    /\ EngineVarsBut(t, Idle)
    /\ UNCHANGED <<live, engines_created, tts_config_engine>>

\* TTSEngineManager.__new__ and TTSConfig.__init__
NoFailure == [msg |-> 0, mark |-> FALSE]

InitFailures ==
    /\ failed = NoFailure
    /\ frag = "none"
    /\ initial_guard_count = 0
    /\ sdk = <<>>
    /\ added = <<>>

InitEngine ==
    /\ _current_engine = None
    /\ _current_engine_type = NoType
    /\ live = {}
    /\ engines_created = 0
    /\ tts_config_engine = "kokoro"
    /\ eng = [t \in Threads |-> Idle]

\* ------------------------------------------------------------------ Init
InitAggregate ==
    /\ paid_gift_total_value = 0
    /\ paid_gift_count = 0
    /\ superchat_total_value = 0
    /\ membership_total_value = 0
    /\ guard_counts = [g \in GuardTypes |-> 0]
    /\ total_guard_count = 0
    /\ milestone_progress = 0
    /\ milestone_count = 0

InitMessages ==
    /\ msgs = <<>>
    /\ tts_messages = <<>>
    /\ tts_queue = <<>>
    /\ tts_playing = None
    /\ tts_autoplay = FALSE
    /\ member_queue = <<>>
    /\ lock = "free"

InitProcessor ==
    /\ running = FALSE
    /\ task = None
    /\ tasks = <<>>
    /\ stopping = FALSE

InitHistory ==
    /\ revenue = 0
    /\ replay = [g \in GoalChoices |-> <<0, 0>>]
    /\ last_op = "none"
    /\ last_goal = 0
    /\ records_only = TRUE
    /\ drained = 0

\* the watcher before its first scan, a fresh tracker and an empty directory
InitWatcher ==
    /\ current_tail_file = None
    /\ active_handle = None
    /\ last_offset = 0
    /\ target_files = <<>>
    /\ hist_i = 0
    /\ wpc = "scan"
    /\ processed_files = {}
    /\ files = <<>>
    /\ file_days = <<>>
    /\ today = 1
    /\ ledger = <<>>
    /\ runs = 1
    /\ faults = 0
    /\ delivered = <<>>

\* ------------------------------------------- the aggregator on its own
AggMessages ==
    [type : MessageType, ts : {1}, user : Users, value : Values,
     quantity : {1}, duration : {1}, guard_type : GuardTypes, nsegs : {1}]

AggRecord == \E m \in AggMessages : add_message(m)
AggRecompute == \E g \in RecalcGoals : recalculate_milestones(g)

InitAgg ==
    /\ InitAggregate /\ InitParser /\ InitWebhook /\ InitEngine /\ InitFailures /\ InitMessages /\ InitProcessor /\ InitWatcher /\ InitHistory
    /\ milestone_goal \in GoalChoices

\* fetch_initial_guard_count: data['info'].get('num', 0), or 0
MaxInitialGuards == 2
SetInitialGuardCount == \E count \in 0..MaxInitialGuards : set_initial_guard_count(count)

NextSeed == AggRecord \/ SetInitialGuardCount

SpecSeed == InitAgg /\ [][NextSeed]_vars

\* plugin mode: events come from the SDK's handler
MaxDelivered == 2
SdkSafeCallback ==
    \E e \in AggMessages : Len(sdk) < MaxDelivered /\ sdk_safe_callback(e)
OnSdkMessage == \E k \in DOMAIN sdk : on_sdk_message(k)
OnSdkTranslated == \E k \in DOMAIN sdk : on_sdk_translated(k)
OnSdkBroadcast == \E k \in DOMAIN sdk : on_sdk_broadcast(k)

NextSdk == SdkSafeCallback \/ OnSdkMessage \/ OnSdkTranslated \/ OnSdkBroadcast

SpecSdk == InitAgg /\ [][NextSdk]_vars

NextAgg == AggRecord \/ AggRecompute

SpecAgg == InitAgg /\ [][NextAgg]_vars

\* ------------------------------------------------------ routers/sockets.py
Entry(i, mark_read) == [msg |-> i, mark |-> mark_read]

\* [msg for msg in state.tts_messages.values() if not msg.is_read]
UnreadKeys == {k \in DOMAIN tts_messages : ~msgs[tts_messages[k]].is_read}

\* position of a key in the dict: keys keep the place of their first insertion
DictPos(k) ==
    CHOOSE i \in 1..Len(msgs) :
        /\ msgs[i].unique_id = k
        /\ \A j \in 1..(i - 1) : msgs[j].unique_id # k

\* unread.sort(key=lambda m: m.timestamp) is stable: ties keep the dict order
SortsBefore(k, j) ==
    \/ msgs[tts_messages[k]].ts < msgs[tts_messages[j]].ts
    \/ /\ msgs[tts_messages[k]].ts = msgs[tts_messages[j]].ts
       /\ DictPos(k) < DictPos(j)

\* the slip of taking the last element of the sorted list
NewestUnread ==
    CHOOSE k \in UnreadKeys : \A j \in UnreadKeys \ {k} : SortsBefore(j, k)

\* unread[0]
OldestUnread ==
    CHOOSE k \in UnreadKeys : \A j \in UnreadKeys \ {k} : SortsBefore(k, j)

\* the slip of draining with if instead of while
DrainOne(q) == IF q = <<>> THEN q ELSE Tail(q)

RECURSIVE DrainLoop(_)
DrainLoop(q) == IF q = <<>> THEN q ELSE DrainLoop(Tail(q))

\* while not state.tts_queue.empty(): get_nowait(); task_done()
Drain(q) == DrainLoop(q)

\* if unread and state.tts_queue.empty(): put((unread[0], True))
SeedQueue ==
    IF UnreadKeys # {} /\ tts_queue = <<>>
    THEN Append(tts_queue, Entry(tts_messages[OldestUnread], TRUE))
    ELSE tts_queue

toggle_autoplay(enabled) ==
    /\ lock = "free"
    /\ tts_autoplay' = enabled
    /\ IF enabled
       THEN /\ tts_queue' = SeedQueue
            /\ lock' = "free"
            /\ History(IF last_op = "toggle_off" THEN "off_on" ELSE "toggle_on", 0, 0)
       ELSE /\ tts_queue' = Drain(tts_queue)
            \* await sio.emit('tts:queue_cleared') inside the lock
            /\ lock' = "toggle_autoplay"
            /\ History("toggle_off", 0, Len(tts_queue) - Len(Drain(tts_queue)))
    /\ UNCHANGED <<aggVars, cfgVars, callVars, msgs, tts_messages, tts_playing, member_queue,
                   procVars, watchVars, revenue, replay>>

\* the slip of marking a manual replay as not to be marked read
ManualEntryUnmarked(i) == Entry(i, FALSE)

\* (msg, True): manual play always marks as read
ManualEntry(i) == Entry(i, TRUE)

play_message(unique_id) ==
    /\ lock = "free"
    /\ IF unique_id \in DOMAIN tts_messages
       THEN /\ Len(tts_queue) < MaxQueue
            /\ tts_queue' = Append(tts_queue, ManualEntry(tts_messages[unique_id]))
            \* await sio.emit('tts:message_queued') inside the lock
            /\ lock' = "play_message"
       ELSE UNCHANGED <<tts_queue, lock>>
    /\ History("play_message", 0, 0)
    /\ UNCHANGED <<aggVars, cfgVars, callVars, msgs, tts_messages, tts_playing, tts_autoplay,
                   member_queue, procVars, watchVars, revenue, replay>>

\* handle_tts_clear_queue takes no lock
clear_queue ==
    /\ tts_queue' = Drain(tts_queue)
    /\ History("clear_queue", 0, Len(tts_queue) - Len(Drain(tts_queue)))
    /\ UNCHANGED <<aggVars, cfgVars, callVars, msgs, tts_messages, tts_playing, tts_autoplay,
                   member_queue, lock, procVars, watchVars, revenue, replay>>

InHistory(i) == \E k \in DOMAIN tts_messages : tts_messages[k] = i

mark_all_read ==
    /\ lock = "free"
    /\ msgs' = [i \in DOMAIN msgs |->
                  IF InHistory(i) THEN [msgs[i] EXCEPT !.is_read = TRUE] ELSE msgs[i]]
    /\ History("mark_all_read", 0, 0)
    /\ UNCHANGED <<aggVars, cfgVars, callVars, tts_messages, tts_queue, tts_playing,
                   tts_autoplay, member_queue, lock, procVars, watchVars, revenue, replay>>

\* data.get('is_read') is True or False, or absent (given = FALSE): flip
toggle_read(unique_id, given, is_read) ==
    /\ lock = "free"
    /\ IF unique_id \in DOMAIN tts_messages
       THEN /\ msgs' = [msgs EXCEPT ![tts_messages[unique_id]].is_read =
                          IF given THEN is_read ELSE ~@]
            \* await sio.emit('tts:read_state_changed') inside the lock
            /\ lock' = "toggle_read"
       ELSE UNCHANGED <<msgs, lock>>
    /\ History("toggle_read", 0, 0)
    /\ UNCHANGED <<aggVars, cfgVars, callVars, tts_messages, tts_queue, tts_playing,
                   tts_autoplay, member_queue, procVars, watchVars, revenue, replay>>

\* the emit a handler awaits inside `async with state.lock` returns (or
\* raises): the lock is released
handler_emit_done ==
    /\ lock # "free"
    /\ lock' = "free"
    /\ UNCHANGED <<aggVars, cfgVars, callVars, msgVars, procVars, watchVars, histVars>>

\* ------------------------------------------------ services/tts.py: TTSProcessor
GUARD_CONFIG == {"captain", "admiral", "governor"}

\* msg.webhook_type: set by _parse_guard for the three known tiers
HasWebhook(i) == msgs[i].type = GUARD /\ msgs[i].guard_type \in GUARD_CONFIG

NewTask == [pc |-> "start", msg |-> 0, mark |-> FALSE, seg |-> 0, cancel |-> FALSE]

Alive(t) == tasks[t].pc # "done"

start ==
    /\ ~stopping
    /\ IF running
       THEN UNCHANGED <<running, task, tasks>>
       ELSE /\ Len(tasks) < MaxTasks
            /\ running' = TRUE
            /\ tasks' = Append(tasks, NewTask)
            /\ task' = Len(tasks) + 1
    /\ History("start", 0, 0)
    /\ UNCHANGED <<aggVars, cfgVars, callVars, msgVars, lock, stopping, watchVars, revenue, replay>>

\* self.running = False; self.task.cancel(); await self.task
stop ==
    /\ ~stopping
    /\ running' = FALSE
    /\ IF task # None
       THEN /\ tasks' = [tasks EXCEPT ![task].cancel = Alive(task)]
            /\ stopping' = Alive(task)
       ELSE UNCHANGED <<tasks, stopping>>
    /\ History("stop", 0, 0)
    /\ UNCHANGED <<aggVars, cfgVars, callVars, msgVars, lock, task, watchVars, revenue, replay>>

\* `await self.task` in stop() returns once the task has ended
stop_return ==
    /\ stopping
    /\ ~Alive(task)
    /\ stopping' = FALSE
    /\ UNCHANGED <<aggVars, cfgVars, callVars, msgVars, lock, running, task, tasks, watchVars,
                   histVars>>

\* The consumer between two suspension points.  c is the part of the state
\* one run of the coroutine reads and writes:
\*   [pc, msg, mark, seg, queue, playing, msgs]
\* "Mark as read": async with state.lock (suspends only when the lock is held)
EnterMarkRead(c) ==
    IF lock = "free"
    THEN [c EXCEPT !.msgs = IF c.mark THEN [c.msgs EXCEPT ![c.msg].is_read = TRUE]
                            ELSE c.msgs,
                   !.playing = None,
                   !.pc = "emit_done"]
    ELSE [c EXCEPT !.pc = "lock2"]

\* the slip of leaving the loop after the first segment
EnterSegmentFirstOnly(c, i) ==
    IF i > 1 \/ ~running
    THEN EnterMarkRead(c)
    ELSE [c EXCEPT !.pc = "emit_now", !.seg = i]

\* for segment, is_command in msg.command_segments: if not self.running: break
EnterSegment(c, i) ==
    IF i > c.msgs[c.msg].nsegs \/ ~running
    THEN EnterMarkRead(c)
    ELSE [c EXCEPT !.pc = "emit_now", !.seg = i]

\* state.tts_playing = msg; if msg.webhook_type: await asyncio.to_thread(...)
EnterPlaying(c) ==
    LET c1 == [c EXCEPT !.playing = c.msg]
    IN  IF HasWebhook(c.msg) THEN [c1 EXCEPT !.pc = "webhook"]
        ELSE EnterSegment(c1, 1)

\* msg, should_mark_read = queue_item; async with state.lock
EnterDequeued(c) ==
    LET e == Head(c.queue)
        c1 == [c EXCEPT !.queue = Tail(c.queue), !.msg = e.msg, !.mark = e.mark,
                        !.seg = 0]
    IN  IF lock = "free" THEN EnterPlaying(c1) ELSE [c1 EXCEPT !.pc = "lock1"]

\* while self.running: queue_item = await state.tts_queue.get()
EnterLoop(c) ==
    IF ~running THEN [c EXCEPT !.pc = "done"]
    ELSE IF c.queue = <<>> THEN [c EXCEPT !.pc = "get"]
    ELSE EnterDequeued(c)

Resume(c) ==
    CASE c.pc \in {"start", "delay", "backoff"} -> EnterLoop(c)
      [] c.pc = "get" -> EnterDequeued(c)
      [] c.pc = "lock1" -> EnterPlaying(c)
      \* await asyncio.sleep(1.0): webhook cooldown
      [] c.pc = "webhook" -> [c EXCEPT !.pc = "cooldown"]
      [] c.pc = "cooldown" -> EnterSegment(c, 1)
      \* await TTSService.play_command_audio / play_text_segment
      [] c.pc = "emit_now" -> [c EXCEPT !.pc = "render"]
      [] c.pc = "render" -> EnterSegment(c, c.seg + 1)
      [] c.pc = "lock2" -> EnterMarkRead(c)
      \* state.tts_queue.task_done(); await asyncio.sleep(0.5)
      [] c.pc = "emit_done" -> [c EXCEPT !.pc = "delay"]

Context(t) ==
    [pc |-> tasks[t].pc, msg |-> tasks[t].msg, mark |-> tasks[t].mark,
     seg |-> tasks[t].seg, queue |-> tts_queue, playing |-> tts_playing,
     msgs |-> msgs]

\* msg, should_mark_read and the loop index are locals of the coroutine: they
\* are kept only where the code still reads them
Locals(c) ==
    IF c.pc \in {"start", "get", "delay", "backoff", "done"}
    THEN [pc |-> c.pc, msg |-> 0, mark |-> FALSE, seg |-> 0]
    ELSE IF c.pc = "emit_done"
    THEN [pc |-> c.pc, msg |-> c.msg, mark |-> FALSE, seg |-> 0]
    ELSE [pc |-> c.pc, msg |-> c.msg, mark |-> c.mark, seg |-> c.seg]

CommitBut(t, c) ==
    /\ tasks' = [tasks EXCEPT ![t] =
                   [pc |-> Locals(c).pc, msg |-> Locals(c).msg, mark |-> Locals(c).mark,
                    seg |-> Locals(c).seg,
                    cancel |-> tasks[t].cancel /\ c.pc # "done"]]
    /\ tts_queue' = c.queue
    /\ tts_playing' = c.playing
    /\ msgs' = c.msgs
    /\ UNCHANGED <<aggVars, cfgVars, parseVars, hookVars, engVars, otherVars,
                   tts_messages, tts_autoplay, member_queue, lock, running, task,
                   stopping, watchVars, histVars>>

\* a step that starts from between two entries forgets the failed entry
Commit(t, c) ==
    /\ CommitBut(t, c)
    /\ failed' = IF tasks[t].pc \in {"start", "get", "delay", "backoff"}
                 THEN NoFailure ELSE failed

\* the slip of letting the error out of play_text_segment, into the
\* `except Exception` of _process_queue
AfterFailedCallRaises(c) == [c EXCEPT !.pc = "backoff"]

\* trigger_webhook returns False and its result is not looked at;
\* play_text_segment catches and logs what _play_text_sync raises, and
\* play_command_audio returns False: the coroutine goes on as after a call
\* that worked
AfterFailedCall(c) == Resume(c)

\* the await the task is suspended on completes and the coroutine runs to
\* its next suspension point
consumer_step(t) ==
    /\ Alive(t)
    /\ ~tasks[t].cancel
    /\ tasks[t].pc = "get" => tts_queue # <<>>
    /\ tasks[t].pc \in {"lock1", "lock2"} => lock = "free"
    /\ Commit(t, Resume(Context(t)))

\* the webhook request or the rendering of the segment the task waits for
\* fails
consumer_call_fails(t) ==
    /\ Alive(t)
    /\ ~tasks[t].cancel
    /\ tasks[t].pc \in {"webhook", "render"}
    /\ CommitBut(t, AfterFailedCall(Context(t)))
    /\ failed' = [msg |-> tasks[t].msg, mark |-> tasks[t].mark]

\* an emit raises: except Exception: logger.error; await asyncio.sleep(1.0)
consumer_emit_fails(t) ==
    /\ Alive(t)
    /\ ~tasks[t].cancel
    /\ tasks[t].pc \in {"emit_now", "emit_done"}
    /\ Commit(t, [Context(t) EXCEPT !.pc = "backoff"])

\* CancelledError is thrown into the coroutine at the await it is suspended
\* on: `except asyncio.CancelledError: break` inside the try, propagation out
\* of the except handler's sleep; either way the task ends
consumer_cancelled(t) ==
    /\ Alive(t)
    /\ tasks[t].cancel
    /\ Commit(t, [Context(t) EXCEPT !.pc = "done"])

\* ---------------------------------------------- state.py: ProcessedFilesTracker
is_processed(filename) == filename \in processed_files

\* self._processed.add(filename)
mark_processed(filename) == processed_files \cup {filename}

\* the slip of appending the name whether or not it is in the set
LedgerAppendAlways(filename) == Append(ledger, filename)

\* if filename not in self._processed: ... f.write(f"{filename}\n")
LedgerAppend(filename) ==
    IF is_processed(filename) THEN ledger ELSE Append(ledger, filename)

\* the slip of starting with an empty set whatever the ledger holds
LoadNothing == {}

\* _load: self._processed = set(line.strip() for line in f if line.strip())
LoadLedger == {ledger[i] : i \in 1..Len(ledger)}

\* a call of state.file_tracker.mark_processed(filename) on its own
tracker_mark(filename) ==
    /\ processed_files' = mark_processed(filename)
    /\ ledger' = LedgerAppend(filename)
    /\ History(IF is_processed(filename) THEN "mark_again" ELSE "mark",
               last_goal, drained)
    /\ UNCHANGED <<aggVars, cfgVars, callVars, msgVars, lock, procVars, revenue, replay,
                   current_tail_file, active_handle, last_offset, target_files,
                   hist_i, wpc, files, delivered, dirVars, runs, faults>>

\* the same call when open(TRACKING_FILE, 'a') or f.write raises: the name has
\* been added to the set on the line before, nothing catches the error
tracker_mark_write_fails(filename) ==
    /\ ~is_processed(filename)
    /\ processed_files' = mark_processed(filename)
    /\ ledger' = ledger
    /\ History("mark_fails", last_goal, drained)
    /\ UNCHANGED <<aggVars, cfgVars, callVars, msgVars, lock, procVars, revenue, replay,
                   current_tail_file, active_handle, last_offset, target_files,
                   hist_i, wpc, files, delivered, dirVars, runs, faults>>

\* ------------------------------------------------------ services/watcher.py
\* A file is its place in the lexical order of the names room_<id>-<day>_<time>.txt
\* and holds complete lines; a line is <<file, number>>.
\* the slip of sorting the names newest first
RECURSIVE SortedDescending(_)
SortedDescending(S) ==
    IF S = {} THEN <<>>
    ELSE LET most == CHOOSE f \in S : \A g \in S : g <= f
         IN  <<most>> \o SortedDescending(S \ {most})

RECURSIVE Sorted(_)
Sorted(S) ==
    IF S = {} THEN <<>>
    ELSE LET least == CHOOSE f \in S : \A g \in S : f <= g
         IN  <<least>> \o Sorted(S \ {least})

\* the slip of leaving the tracker out of the scan
ListAll(listed) == listed

\* if state.file_tracker.is_processed(fname): continue
ListUnprocessed(listed) == {f \in listed : ~is_processed(f)}

\* fname.startswith(f"room_{room_id}-{today_str}_") and fname.endswith(".txt")
Matching == {f \in 1..Len(files) : file_days[f] = today}

\* os.listdir, the prefix/suffix match, the tracker filter, matching_files.sort()
_get_target_files == Sorted(ListUnprocessed(Matching))

\* the slip of dropping the last of the lines read
RemainingLinesButLast(f, offset) ==
    IF offset >= files[f] THEN <<>>
    ELSE [i \in 1..(files[f] - offset - 1) |-> <<f, offset + i>>]

\* the slip of reading the handle without the seek to the offset
RemainingLinesFromStart(f, offset) ==
    [i \in 1..files[f] |-> <<f, i>>]

\* await handle.seek(offset); lines = await handle.readlines()
RemainingLines(f, offset) ==
    IF offset >= files[f] THEN <<>>
    ELSE [i \in 1..(files[f] - offset) |-> <<f, offset + i>>]

\* the slip of closing the tailed file without reading what is left of it
FinishNothing(f, offset) == <<>>

\* "Newer file detected. Finishing current file": seek(last_offset), readlines()
FinishLines(f, offset) == RemainingLines(f, offset)

\* the writer (blivechat) appends a complete line to the newest file of the day
writer_append ==
    /\ files # <<>>
    /\ files[Len(files)] < MaxLines
    /\ files' = [files EXCEPT ![Len(files)] = @ + 1]
    /\ UNCHANGED <<aggVars, cfgVars, callVars, msgVars, lock, procVars, histVars,
                   current_tail_file, active_handle, last_offset, target_files,
                   hist_i, wpc, processed_files, delivered, dirVars, runVars>>

\* the writer starts a new, lexically newer file, named after the day, and
\* writes to it from then on
writer_rotate ==
    /\ Len(files) < MaxFiles
    /\ files' = Append(files, 0)
    /\ file_days' = Append(file_days, today)
    /\ UNCHANGED <<aggVars, cfgVars, callVars, msgVars, lock, procVars, histVars,
                   current_tail_file, active_handle, last_offset, target_files,
                   hist_i, wpc, processed_files, delivered, today, runVars>>

\* midnight passes: datetime.now().strftime('%Y%m%d') changes
day_rollover ==
    /\ today < MaxDays
    /\ today' = today + 1
    /\ UNCHANGED <<aggVars, cfgVars, callVars, msgVars, lock, procVars, histVars,
                   current_tail_file, active_handle, last_offset, target_files,
                   hist_i, wpc, processed_files, files, file_days, delivered, runVars>>

\* 2. Scan for valid files.  With nothing found the loop sleeps and scans
\* again: without a tailed file by asyncio.sleep(2); continue, with one by
\* `pass`, target_files[0] raising IndexError into the outer except and its
\* asyncio.sleep(2).  Step 5 is not reached either way.
watch_scan ==
    /\ wpc = "scan"
    /\ target_files' = _get_target_files
    /\ IF target_files' = <<>>
       THEN wpc' = "sleep" /\ hist_i' = 0
       ELSE IF Len(target_files') > 1
            THEN wpc' = "hist" /\ hist_i' = 1
            ELSE wpc' = "switch" /\ hist_i' = 0
    /\ UNCHANGED <<aggVars, cfgVars, callVars, msgVars, lock, procVars, histVars,
                   current_tail_file, active_handle, last_offset,
                   processed_files, files, delivered, dirVars, runVars>>

\* await asyncio.sleep(2) returns: the next iteration
watch_sleep ==
    /\ wpc = "sleep"
    /\ wpc' = "scan"
    /\ UNCHANGED <<aggVars, cfgVars, callVars, msgVars, lock, procVars, histVars,
                   current_tail_file, active_handle, last_offset, target_files,
                   hist_i, processed_files, files, delivered, dirVars, runVars>>

\* for fp in files_to_process: the next index, or on to the tail file
HistoricalNext ==
    IF hist_i < Len(target_files) - 1
    THEN wpc' = "hist" /\ hist_i' = hist_i + 1
    ELSE wpc' = "switch" /\ hist_i' = 0

\* if current_tail_file == fp and active_handle: finish it, close it, mark it
finish_tailed_file(fp) ==
    /\ wpc = "hist"
    /\ fp = target_files[hist_i]
    /\ current_tail_file = fp /\ active_handle # None
    /\ delivered' = delivered \o FinishLines(active_handle, last_offset)
    /\ active_handle' = None
    /\ current_tail_file' = None
    /\ processed_files' = mark_processed(fp)
    /\ ledger' = LedgerAppend(fp)
    /\ HistoricalNext
    /\ UNCHANGED <<aggVars, cfgVars, callVars, msgVars, lock, procVars, histVars,
                   last_offset, target_files, files, dirVars, runs, faults>>

\* else: await self._read_file_fully(fp)
_read_file_fully(fp) ==
    /\ wpc = "hist"
    /\ fp = target_files[hist_i]
    /\ ~(current_tail_file = fp /\ active_handle # None)
    /\ delivered' = delivered \o RemainingLines(fp, 0)
    /\ processed_files' = mark_processed(fp)
    /\ ledger' = LedgerAppend(fp)
    /\ HistoricalNext
    /\ UNCHANGED <<aggVars, cfgVars, callVars, msgVars, lock, procVars, histVars,
                   current_tail_file, active_handle, last_offset, target_files, files,
                   dirVars, runs, faults>>

\* 4. Manage Tailing: if current_tail_file != target_tail_file, read what is
\* left of an open handle, close it and mark its file, then open the target
\* at offset 0
manage_tailing(target_tail_file) ==
    /\ wpc = "switch"
    /\ target_tail_file = target_files[Len(target_files)]
    /\ IF current_tail_file # target_tail_file
       THEN /\ IF active_handle # None
               THEN /\ delivered' = delivered \o RemainingLines(active_handle, last_offset)
                    /\ processed_files' =
                         IF current_tail_file # None THEN mark_processed(current_tail_file)
                         ELSE processed_files
                    /\ ledger' =
                         IF current_tail_file # None THEN LedgerAppend(current_tail_file)
                         ELSE ledger
               ELSE UNCHANGED <<delivered, processed_files, ledger>>
            /\ active_handle' = target_tail_file
            /\ last_offset' = 0
            /\ current_tail_file' = target_tail_file
       ELSE UNCHANGED <<delivered, processed_files, ledger, active_handle,
                        last_offset, current_tail_file>>
    /\ wpc' = "tail"
    /\ UNCHANGED <<aggVars, cfgVars, callVars, msgVars, lock, procVars, histVars,
                   target_files, hist_i, files, dirVars, runs, faults>>

\* 5. Tail loop: getsize (a smaller size resets the offset), seek, readlines,
\* last_offset = tell() if anything was read; then asyncio.sleep(0.5)
tail_read ==
    /\ wpc = "tail"
    /\ IF active_handle # None
       THEN LET offset == IF files[current_tail_file] < last_offset THEN 0
                          ELSE last_offset
                lines == RemainingLines(active_handle, offset)
            IN  /\ delivered' = delivered \o lines
                /\ last_offset' = offset + Len(lines)
       ELSE UNCHANGED <<delivered, last_offset>>
    /\ wpc' = "scan"
    /\ UNCHANGED <<aggVars, cfgVars, callVars, msgVars, lock, procVars, histVars,
                   current_tail_file, active_handle, target_files, hist_i,
                   processed_files, files, dirVars, runVars>>

\* the writer writes the first part of a line, without its newline, to the
\* newest file
writer_begin_line ==
    /\ files # <<>>
    /\ files[Len(files)] < MaxLines
    /\ frag = "none"
    /\ frag' = "written"
    /\ UNCHANGED <<aggVars, cfgVars, parseVars, hookVars, engVars, failVars, seedVars, sdkVars, msgVars,
                   lock, procVars, histVars, watchVars>>

\* the writer writes the rest of the line and its newline
writer_end_line ==
    /\ frag \in {"written", "read"}
    /\ frag' = IF frag = "written" THEN "none" ELSE "rest"
    /\ files' = [files EXCEPT ![Len(files)] = @ + 1]
    /\ UNCHANGED <<aggVars, cfgVars, parseVars, hookVars, engVars, failVars, seedVars, sdkVars, msgVars,
                   lock, procVars, histVars, current_tail_file, active_handle,
                   last_offset, target_files, hist_i, wpc, processed_files,
                   delivered, dirVars, runVars>>

\* 5. Tail loop with a line that may be partly written.  readlines() returns
\* what is in the file after the offset, split after each newline: the
\* complete lines, and as last element the characters after the last newline.
\* Each element goes to _process_line and last_offset = tell() is the end of
\* the file.  last_offset counts the complete lines behind the offset; with
\* frag = "read" or "rest" the offset is inside the line after them.
tail_poll ==
    /\ wpc = "tail"
    /\ IF active_handle # None
       THEN LET f == active_handle
                newest == f = Len(files)
                whole == RemainingLines(f, last_offset)
                lines ==
                    IF newest /\ frag = "rest"
                    THEN <<<<f, last_offset + 1, "rest">>>> \o Tail(whole)
                    ELSE IF newest /\ frag = "written"
                    THEN whole \o <<<<f, files[f] + 1, "head">>>>
                    ELSE whole
            IN  /\ delivered' = delivered \o lines
                /\ last_offset' = last_offset + Len(whole)
                /\ frag' = IF newest /\ frag = "rest" THEN "none"
                           ELSE IF newest /\ frag = "written" THEN "read"
                           ELSE frag
       ELSE UNCHANGED <<delivered, last_offset, frag>>
    /\ wpc' = "scan"
    /\ UNCHANGED <<aggVars, cfgVars, parseVars, hookVars, engVars, failVars, seedVars, sdkVars, msgVars,
                   lock, procVars, histVars, current_tail_file, active_handle,
                   target_files, hist_i, processed_files, files, dirVars, runVars>>

\* --------------------------------------- the announcement pipeline on its own
\* guards at either timestamp and a superchat at the first one (so that two
\* events can arrive in or against the order of their timestamps, or tie); a
\* guard's text is one segment, a superchat's here two (a sound command and
\* the spoken rest); the values do not matter to the queue
TTSMessages ==
    [type : {GUARD}, ts : Timestamps, user : Users, value : {0},
     quantity : {1}, duration : {1}, guard_type : GuardTypes, nsegs : {1}]
    \cup
    [type : {SUPERCHAT}, ts : {1}, user : Users, value : {0},
     quantity : {1}, duration : {1}, guard_type : GuardTypes, nsegs : {2}]

\* with the chat lines, which are not announce-eligible
RecordMessages ==
    TTSMessages \cup
    [type : {DM}, ts : {1}, user : Users, value : {0},
     quantity : {1}, duration : {1}, guard_type : GuardTypes, nsegs : {1}]

TTSIds == {UniqueId(m) : m \in TTSMessages}

TTSRecord == \E m \in RecordMessages : add_message(m)
TTSToggleAutoplay == \E enabled \in BOOLEAN : toggle_autoplay(enabled)
TTSPlayMessage == \E k \in TTSIds : play_message(k)
TTSClearQueue == clear_queue
TTSMarkAllRead == mark_all_read
TTSToggleRead ==
    \E k \in TTSIds, given \in BOOLEAN, r \in BOOLEAN : toggle_read(k, given, r)
TTSEmitDone == handler_emit_done
TTSStart == start
TTSStop == stop
TTSStopReturn == stop_return
TTSConsumerStep == \E t \in DOMAIN tasks : consumer_step(t)
TTSConsumerEmitFails == \E t \in DOMAIN tasks : consumer_emit_fails(t)
TTSConsumerCancelled == \E t \in DOMAIN tasks : consumer_cancelled(t)
TTSConsumerCallFails == \E t \in DOMAIN tasks : consumer_call_fails(t)

\* create_app's lifespan has started the processor (app/__init__.py)
InitTTS ==
    /\ InitAggregate /\ InitParser /\ InitWebhook /\ InitEngine /\ InitFailures /\ InitMessages /\ InitWatcher
    /\ revenue = 0
    /\ replay = [g \in GoalChoices |-> <<0, 0>>]
    /\ last_op = "start"
    /\ last_goal = 0
    /\ records_only = FALSE
    /\ drained = 0
    /\ milestone_goal = DEFAULT_MILESTONE_GOAL
    /\ running = TRUE
    /\ task = 1
    /\ tasks = <<NewTask>>
    /\ stopping = FALSE

\* the socket handlers, record and the running consumer
NextTTS ==
    \/ TTSRecord
    \/ TTSToggleAutoplay
    \/ TTSPlayMessage
    \/ TTSClearQueue
    \/ TTSEmitDone
    \/ TTSConsumerStep

SpecTTS == InitTTS /\ [][NextTTS]_vars

\* records of every type while autoplay is switched on and off
NextFrame == AggRecord \/ TTSToggleAutoplay \/ TTSEmitDone

\* ------------------------------------------- starting and stopping the consumer
\* a guard (webhook, cooldown, one segment) and a superchat (two segments)
ProcMessages == {m \in TTSMessages : m.ts = 1}
ProcRecord == \E m \in ProcMessages : add_message(m)
ProcPlayMessage == \E m \in ProcMessages : play_message(UniqueId(m))

InitProc ==
    /\ InitAggregate /\ InitParser /\ InitWebhook /\ InitEngine /\ InitFailures /\ InitMessages /\ InitProcessor /\ InitWatcher /\ InitHistory
    /\ milestone_goal = DEFAULT_MILESTONE_GOAL

SpecFrame == InitProc /\ [][NextFrame]_vars

NextProc ==
    \/ TTSStart
    \/ TTSStop
    \/ TTSStopReturn
    \/ ProcRecord
    \/ ProcPlayMessage
    \/ TTSEmitDone
    \/ TTSConsumerStep
    \/ TTSConsumerEmitFails
    \/ TTSConsumerCancelled

SpecProc == InitProc /\ [][NextProc]_vars

\* Errors.  An error strikes before any line of the failing read is handed on;
\* faults counts them.
\* os.listdir raises OSError: _get_target_files returns [], and the loop
\* sleeps as after any empty scan
listing_error ==
    /\ faults < MaxFaults
    /\ wpc = "scan"
    /\ faults' = faults + 1
    /\ target_files' = <<>>
    /\ hist_i' = 0
    /\ wpc' = "sleep"
    /\ UNCHANGED <<aggVars, cfgVars, callVars, msgVars, lock, procVars, histVars,
                   current_tail_file, active_handle, last_offset,
                   processed_files, files, delivered, dirVars, ledger, runs>>

\* _read_file_fully: except Exception: logger.error(...); the file is not
\* marked and the for loop goes on
read_fully_error(fp) ==
    /\ faults < MaxFaults
    /\ wpc = "hist"
    /\ fp = target_files[hist_i]
    /\ ~(current_tail_file = fp /\ active_handle # None)
    /\ faults' = faults + 1
    /\ HistoricalNext
    /\ UNCHANGED <<aggVars, cfgVars, callVars, msgVars, lock, procVars, histVars,
                   current_tail_file, active_handle, last_offset, target_files,
                   processed_files, files, delivered, dirVars, ledger, runs>>

\* the read that finishes the tailed file raises: nothing catches it before
\* the outer except, which sleeps; the handle stays as it is
finish_error(fp) ==
    /\ faults < MaxFaults
    /\ wpc = "hist"
    /\ fp = target_files[hist_i]
    /\ current_tail_file = fp /\ active_handle # None
    /\ faults' = faults + 1
    /\ wpc' = "sleep"
    /\ UNCHANGED <<aggVars, cfgVars, callVars, msgVars, lock, procVars, histVars,
                   current_tail_file, active_handle, last_offset, target_files,
                   hist_i, processed_files, files, delivered, dirVars, ledger, runs>>

\* 4. Manage Tailing, the read of what is left of the old file raises:
\* "Error closing old file", active_handle = None without close and without
\* mark_processed; the target is then opened
close_old_error(target_tail_file) ==
    /\ faults < MaxFaults
    /\ wpc = "switch"
    /\ target_tail_file = target_files[Len(target_files)]
    /\ current_tail_file # target_tail_file
    /\ active_handle # None
    /\ faults' = faults + 1
    /\ active_handle' = target_tail_file
    /\ last_offset' = 0
    /\ current_tail_file' = target_tail_file
    /\ wpc' = "tail"
    /\ UNCHANGED <<aggVars, cfgVars, callVars, msgVars, lock, procVars, histVars,
                   target_files, hist_i, processed_files, files, delivered,
                   dirVars, ledger, runs>>

\* 4. Manage Tailing, aiofiles.open of the target raises after the old handle
\* was read out, closed and marked: "Failed to open", asyncio.sleep(1), continue
open_error(target_tail_file) ==
    /\ faults < MaxFaults
    /\ wpc = "switch"
    /\ target_tail_file = target_files[Len(target_files)]
    /\ current_tail_file # target_tail_file
    /\ faults' = faults + 1
    /\ IF active_handle # None
       THEN /\ delivered' = delivered \o RemainingLines(active_handle, last_offset)
            /\ processed_files' =
                 IF current_tail_file # None THEN mark_processed(current_tail_file)
                 ELSE processed_files
            /\ ledger' =
                 IF current_tail_file # None THEN LedgerAppend(current_tail_file)
                 ELSE ledger
       ELSE UNCHANGED <<delivered, processed_files, ledger>>
    /\ active_handle' = None
    /\ wpc' = "sleep"
    /\ UNCHANGED <<aggVars, cfgVars, callVars, msgVars, lock, procVars, histVars,
                   current_tail_file, last_offset, target_files, hist_i, files,
                   dirVars, runs>>

\* 5. Tail loop, getsize, seek or readlines raises: "Tailing error", the
\* handle is closed, active_handle = None, current_tail_file = None; then
\* asyncio.sleep(0.5)
tail_read_error ==
    /\ faults < MaxFaults
    /\ wpc = "tail"
    /\ active_handle # None
    /\ faults' = faults + 1
    /\ active_handle' = None
    /\ current_tail_file' = None
    /\ wpc' = "scan"
    /\ UNCHANGED <<aggVars, cfgVars, callVars, msgVars, lock, procVars, histVars,
                   last_offset, target_files, hist_i, processed_files, files,
                   delivered, dirVars, ledger, runs>>

\* LogWatcherService.stop(): self.running = False; self.task.cancel(); await
\* self.task.  CancelledError is raised in _watch_loop at the await it is
\* suspended in; it is not an Exception, so neither the inner handlers nor the
\* outer `except Exception` take it, and the coroutine ends.  Nothing on that
\* path (there is no finally) closes active_handle.
watcher_stop ==
    /\ wpc # "done"
    /\ wpc' = "done"
    /\ UNCHANGED <<aggVars, cfgVars, callVars, msgVars, lock, procVars, histVars,
                   current_tail_file, active_handle, last_offset, target_files,
                   hist_i, processed_files, files, delivered, dirVars, runVars>>

\* the process dies and is started again: the tracker is constructed anew from
\* the ledger, _watch_loop starts with its locals at their initial values, the
\* directory is as it was
crash_restart ==
    /\ runs < MaxRuns
    /\ runs' = runs + 1
    /\ processed_files' = LoadLedger
    /\ current_tail_file' = None
    /\ active_handle' = None
    /\ last_offset' = 0
    /\ target_files' = <<>>
    /\ hist_i' = 0
    /\ wpc' = "scan"
    /\ UNCHANGED <<aggVars, cfgVars, callVars, msgVars, lock, procVars, histVars,
                   files, delivered, dirVars, ledger, faults>>

\* ------------------------------------------------- the tailer on its own
\* the lines are chat lines: _process_line hands them to add_message, which
\* changes no counter and no queue for them
WatchFinishTailed == \E fp \in 1..Len(files) : finish_tailed_file(fp)
WatchReadFully == \E fp \in 1..Len(files) : _read_file_fully(fp)
WatchManageTailing == \E fp \in 1..Len(files) : manage_tailing(fp)

InitWatch ==
    /\ InitAggregate /\ InitParser /\ InitWebhook /\ InitEngine /\ InitFailures /\ InitMessages /\ InitProcessor /\ InitWatcher /\ InitHistory
    /\ milestone_goal = DEFAULT_MILESTONE_GOAL

NextWatch ==
    \/ writer_append
    \/ writer_rotate
    \/ watch_scan
    \/ watch_sleep
    \/ WatchFinishTailed
    \/ WatchReadFully
    \/ WatchManageTailing
    \/ tail_read

SpecWatch == InitWatch /\ [][NextWatch]_vars

\* the steps of the _watch_loop task: the event loop resumes a task whose
\* await has completed
WatchStep ==
    \/ watch_scan
    \/ watch_sleep
    \/ WatchFinishTailed
    \/ WatchReadFully
    \/ WatchManageTailing
    \/ tail_read

\* ---------------------------------------------------- the parser on its own
InputsOf(tag) ==
    [header : Headers, tag : {tag}, timestamp : Timestamps, username : ParserUsers,
     name : Names(tag), quantity : Quantities, value : Values,
     message : Texts(tag), omit : SUBSET Delimiters(tag)]

ParserInputs == UNION {InputsOf(tag) : tag \in Tags}

\* the line is any of the lines written out from their parts
InitParse ==
    /\ InitAggregate /\ InitWebhook /\ InitEngine /\ InitFailures /\ InitMessages /\ InitProcessor /\ InitWatcher /\ InitHistory
    /\ milestone_goal = DEFAULT_MILESTONE_GOAL
    /\ built \in ParserInputs
    /\ line = LineOf(built)
    /\ parsed = NotCalled

NextParse == parse

SpecParse == InitParse /\ [][NextParse]_vars

\* ------------------------------------------- the webhook service on its own
TriggerWebhook ==
    \E webhook_type \in Tiers \cup {UNKNOWN_TIER}, ok \in BOOLEAN :
        trigger_webhook(webhook_type, ok)

\* any setting of the flags and of the URLs
InitHook ==
    /\ InitAggregate /\ InitParser /\ InitMessages /\ InitProcessor /\ InitWatcher
    /\ InitHistory /\ InitEngine /\ InitFailures
    /\ milestone_goal = DEFAULT_MILESTONE_GOAL
    /\ enable_webhook \in [Tiers -> BOOLEAN]
    /\ webhook_urls \in [Tiers -> Urls]
    /\ hook = [type |-> "not called", result |-> FALSE, posted |-> "none"]

NextHook == TriggerWebhook

SpecHook == InitHook /\ [][NextHook]_vars

\* ------------------------- the engine manager, called from the two threads
InitEng ==
    /\ InitAggregate /\ InitParser /\ InitWebhook /\ InitEngine /\ InitFailures /\ InitMessages
    /\ InitProcessor /\ InitWatcher /\ InitHistory
    /\ milestone_goal = DEFAULT_MILESTONE_GOAL

ManagerStep(t) ==
    \/ switch_check(t)
    \/ switch_dispose(t)
    \/ switch_clear(t)
    \/ switch_create(t)
    \/ switch_create_fails(t)
    \/ switch_assign(t)
    \/ switch_settype(t)
    \/ switch_return(t)
    \/ dispose_current(t)
    \/ dispose_clear(t)

NextEng ==
    \/ get_engine
    \/ \E engine \in EngineTypes : save_tts_config(engine)
    \/ \E engine_type \in EngineTypes : test_tts(engine_type)
    \/ save_credentials
    \/ \E t \in Threads : ManagerStep(t)

SpecEng == InitEng /\ [][NextEng]_vars

\* ------------------------------- the consumer with failing external calls
\* the consumer task is resumed when what it awaits is done, and asyncio.Lock
\* wakes its waiters in turn; the emit a handler awaits returns
ConsumerProgress == TTSConsumerStep \/ TTSConsumerCallFails

NextPlay ==
    \/ ProcRecord
    \/ ProcPlayMessage
    \/ TTSToggleAutoplay
    \/ TTSEmitDone
    \/ TTSConsumerStep
    \/ TTSConsumerCallFails

SpecPlay ==
    InitTTS /\ [][NextPlay]_vars /\ SF_vars(ConsumerProgress) /\ WF_vars(TTSEmitDone)

\* ------------------------------------ records and saved goal configurations
\* GiftConfigUpdate.milestone_goal is Optional[int] with no constraint
SaveGoals == GoalChoices \cup {0, 0 - Unit}

GoalRecord ==
    \E e \in AggMessages :
        /\ milestone_goal > 0 \/ ~Qualifying(e)
        /\ add_message(e)
GoalRecordHangs == \E e \in AggMessages : add_message_hangs(e)
GoalSave == \E given \in BOOLEAN, goal \in SaveGoals : save_gift_config(given, goal)

NextGoal == GoalRecord \/ GoalRecordHangs \/ GoalSave

SpecGoal == InitAgg /\ [][NextGoal]_vars

\* ------------------------------------- the tailer with failing tail reads
NextTail == NextWatch \/ tail_read_error

SpecTail == InitWatch /\ [][NextTail]_vars

\* ------------------------------ tailing one file whose lines come in parts
\* the writer starts a file between two lines, and writes a line whole or in
\* two parts
PartialRotate == frag = "none" /\ writer_rotate
PartialAppend == frag = "none" /\ writer_append

NextPartial ==
    \/ PartialRotate
    \/ PartialAppend
    \/ writer_begin_line
    \/ writer_end_line
    \/ watch_scan
    \/ watch_sleep
    \/ WatchFinishTailed
    \/ WatchReadFully
    \/ WatchManageTailing
    \/ tail_poll

SpecPartial == InitWatch /\ [][NextPartial]_vars

\* --------------------------------------- the tailer with failing file calls
WatchReadFullyError == \E fp \in 1..Len(files) : read_fully_error(fp)
WatchFinishError == \E fp \in 1..Len(files) : finish_error(fp)
WatchCloseOldError == \E fp \in 1..Len(files) : close_old_error(fp)
WatchOpenError == \E fp \in 1..Len(files) : open_error(fp)

NextFault ==
    \/ writer_append
    \/ writer_rotate
    \/ day_rollover
    \/ watch_scan
    \/ watch_sleep
    \/ WatchFinishTailed
    \/ WatchReadFully
    \/ WatchManageTailing
    \/ tail_read
    \/ listing_error
    \/ WatchReadFullyError
    \/ WatchFinishError
    \/ WatchCloseOldError
    \/ WatchOpenError
    \/ tail_read_error

\* the task keeps being resumed; the errors, MaxFaults at most, stop
SpecFault == InitWatch /\ [][NextFault]_vars /\ WF_vars(WatchStep)

\* ---------------------------------------------- the tailer being stopped
NextStop ==
    \/ writer_append
    \/ writer_rotate
    \/ watcher_stop
    \/ watch_scan
    \/ watch_sleep
    \/ WatchFinishTailed
    \/ WatchReadFully
    \/ WatchManageTailing
    \/ tail_read

SpecStop == InitWatch /\ [][NextStop]_vars

\* ------------------------------------------- the tailer across restarts
NextRestart ==
    \/ writer_append
    \/ writer_rotate
    \/ crash_restart
    \/ watch_scan
    \/ watch_sleep
    \/ WatchFinishTailed
    \/ WatchReadFully
    \/ WatchManageTailing
    \/ tail_read

SpecRestart == InitWatch /\ [][NextRestart]_vars

\* ------------------------------- the tracker called with any name, any time
TrackerMark == \E filename \in 1..MaxFiles : tracker_mark(filename)

NextLedger ==
    \/ TrackerMark
    \/ writer_append
    \/ writer_rotate
    \/ crash_restart
    \/ watch_scan
    \/ watch_sleep
    \/ WatchFinishTailed
    \/ WatchReadFully
    \/ WatchManageTailing
    \/ tail_read

SpecLedger == InitWatch /\ [][NextLedger]_vars

\* the ledger when a write to it can fail
TrackerMarkWriteFails == \E filename \in 1..MaxFiles : tracker_mark_write_fails(filename)

NextLedgerFault ==
    \/ NextLedger
    \/ TrackerMarkWriteFails

SpecLedgerFault == InitWatch /\ [][NextLedgerFault]_vars

\* ------------------------------------------------ the tailer across midnight
NextDay ==
    \/ writer_append
    \/ writer_rotate
    \/ day_rollover
    \/ watch_scan
    \/ watch_sleep
    \/ WatchFinishTailed
    \/ WatchReadFully
    \/ WatchManageTailing
    \/ tail_read

SpecDay == InitWatch /\ [][NextDay]_vars /\ WF_vars(WatchStep)

\* ------------------------------------------------- milestone properties
\* C1: while every operation so far was a record call (paid gifts,
\* memberships, superchats of non-negative value summing to revenue) against
\* the constant positive goal, milestone_progress is in [0, goal) and
\* milestone_progress + milestone_count * goal equals the revenue.
C1_MilestoneInvariant ==
    records_only =>
        /\ milestone_goal > 0
        /\ 0 <= milestone_progress
        /\ milestone_progress < milestone_goal
        /\ milestone_progress + milestone_count * milestone_goal = revenue

\* a membership and a superchat, each larger than the goal, have been recorded
C1_Witness ==
    /\ records_only /\ last_op = "record"
    /\ milestone_goal = 3 * Unit
    /\ milestone_count >= 2
    /\ milestone_progress > 0
    /\ membership_total_value > milestone_goal
    /\ superchat_total_value > milestone_goal

\* C2: right after recalculate_milestones(G2) with G2 > 0 the pair
\* (milestone_count, milestone_progress) is the pair that recording the same
\* events against G2 from the initial state produces, which is
\* (floor(R / G2), R mod G2); three paid gifts of 200 against goal 500 give
\* (1, 100) and a recompute to 150 gives (4, 0).
C2_RecomputeEqualsReplay ==
    /\ (last_op = "recalc" /\ last_goal > 0) =>
          /\ <<milestone_progress, milestone_count>> = replay[last_goal]
          /\ milestone_count = revenue \div last_goal
          /\ milestone_progress = revenue % last_goal
    /\ (/\ records_only /\ milestone_goal = 500
        /\ paid_gift_count = 3 /\ paid_gift_total_value = 600 /\ revenue = 600) =>
          (milestone_count = 1 /\ milestone_progress = 100)
    /\ (last_op = "recalc" /\ last_goal = 150 /\ revenue = 600) =>
          (milestone_count = 4 /\ milestone_progress = 0)

\* the example of the specification: 3 x 200 against 500, then recompute(150)
C2_Witness ==
    /\ last_op = "recalc" /\ last_goal = 150
    /\ milestone_goal = 500
    /\ paid_gift_count = 3 /\ paid_gift_total_value = 600 /\ revenue = 600
    /\ milestone_count = 4 /\ milestone_progress = 0

\* a recompute of a history that mixes the three kinds under another goal
C2_WitnessMixed ==
    /\ last_op = "recalc" /\ last_goal = 3 * Unit /\ milestone_goal = Unit
    /\ membership_total_value > 0 /\ superchat_total_value > 0
    /\ milestone_progress > 0

\* ------------------------------------------------------ tailer properties
AllLinesFrom(f) ==
    LET RECURSIVE Rest(_)
        Rest(g) == IF g > Len(files) THEN <<>>
                   ELSE RemainingLines(g, 0) \o Rest(g + 1)
    IN  Rest(f)

IsPrefix(s, t) == Len(s) <= Len(t) /\ \A i \in 1..Len(s) : s[i] = t[i]

C3_WitnessBoth ==
    /\ Len(files) = 2 /\ files[1] = MaxLines /\ files[2] = MaxLines
    /\ processed_files = {1} /\ current_tail_file = 2
    /\ delivered = AllLinesFrom(1)

\* C4: once mark_processed(f) has been called, f stays marked, no later scan
\* returns f, and no step opens a handle on f or hands a line of f to
\* _process_line.
C4_ProcessedNeverReselected ==
    [][/\ processed_files \subseteq processed_files'
       /\ watch_scan =>
            \A i \in 1..Len(target_files') : target_files'[i] \notin processed_files
       /\ (active_handle' # active_handle /\ active_handle' # None) =>
            active_handle' \notin processed_files
       /\ \A i \in (Len(delivered) + 1)..Len(delivered') :
            delivered'[i][1] \notin processed_files]_vars

\* a scan made after file 1 was marked: it returned the two newer files only
C4_Witness ==
    /\ processed_files = {1}
    /\ Len(files) = 3
    /\ wpc = "hist" /\ hist_i = 1
    /\ target_files = <<2, 3>>

Tailing(f) == current_tail_file = f /\ active_handle = f

HasLine(f, n) == f <= Len(files) /\ n <= files[f]

Delivered(f, n) == \E i \in 1..Len(delivered) : delivered[i] = <<f, n>>

\* C11: while a file is being tailed and the scan finds no matching
\* unprocessed file (the day has changed and no file of the new day exists),
\* every line in the tailed file is eventually handed to _process_line.
C11_KeepsTailingOnEmptyScan ==
    \A f \in 1..MaxFiles, n \in 1..MaxLines :
        (Tailing(f) /\ HasLine(f, n) /\ ListUnprocessed(Matching) = {})
            ~> Delivered(f, n)

InLedger(f) == \E i \in 1..Len(ledger) : ledger[i] = f

Occurrences(f) == Cardinality({i \in 1..Len(ledger) : ledger[i] = f})

C13_WitnessUnmarkedReread ==
    /\ runs = 2
    /\ ~InLedger(1)
    /\ Cardinality({i \in 1..Len(delivered) : delivered[i] = <<1, 1>>}) = 2

\* a file of today that the tracker does not hold and that sorts after f
NewerFileWaiting(f) == \E g \in ListUnprocessed(Matching) : g > f

\* C14: errors of listing, opening and reading leave the loop running, so
\* that once a newer file of today is there for the tailer to move on to, every
\* line of the tailed file is eventually handed to _process_line (unless
\* midnight passes first and the newer file is no longer one of today).
C14_ErrorsNeverLoseLines ==
    \A f \in 1..MaxFiles, n \in 1..MaxLines, d \in 1..MaxDays :
        (Tailing(f) /\ HasLine(f, n) /\ NewerFileWaiting(f) /\ today = d)
            ~> (Delivered(f, n) \/ today # d)

\* C15: once the tailer task has ended after stop(), no file handle is open.
C15_HandleClosedAfterStop == wpc = "done" => active_handle = None

\* ------------------------------------------------ announcement properties
\* the step takes the consumer from waiting for an entry to holding one
Dequeues(t) ==
    /\ tasks[t].pc \in {"start", "get", "delay", "backoff"}
    /\ tasks'[t].pc \in {"lock1", "webhook", "emit_now", "lock2", "emit_done"}

\* the step is the consumer's "Mark as read" block
Completes(t) ==
    /\ tasks[t].pc \in {"cooldown", "render", "lock2"}
    /\ tasks'[t].pc = "emit_done"

C6_WitnessReplayed ==
    /\ last_op = "play_message" /\ ~tts_autoplay
    /\ \E t \in DOMAIN tasks :
         /\ tasks[t].pc = "emit_done"
         /\ msgs[tasks[t].msg].is_read
         /\ Len(msgs) = 1

\* C7: at most one consumer task is alive after any sequence of start and
\* stop calls, and the consumer takes the next entry only when tts_playing
\* has been cleared for the previous one.
C7_AtMostOnePlayback ==
    [][/\ Cardinality({t \in DOMAIN tasks' : tasks'[t].pc # "done"}) <= 1
       /\ \A t \in DOMAIN tasks :
            (consumer_step(t) /\ Dequeues(t)) => tts_playing = None]_vars

\* C8: a record call changes the queue only if tts_autoplay is true at that
\* call: with the flag false the queue is unchanged, with it true a guard or
\* superchat (unread, as every newly parsed event) adds exactly one entry,
\* for that event, with mark_read_on_play = true, and any other event none.
C8_RecordEnqueuesOnlyUnderAutoplay ==
    [][\A m \in RecordMessages :
         add_message(m) =>
            IF tts_autoplay /\ m.type \in {GUARD, SUPERCHAT}
            THEN /\ tts_queue' = Append(tts_queue, [msg |-> Len(msgs) + 1, mark |-> TRUE])
                 /\ msgs'[Len(msgs) + 1].unique_id = UniqueId(m)
                 /\ ~msgs'[Len(msgs) + 1].is_read
            ELSE tts_queue' = tts_queue]_vars

\* with autoplay on a guard and then a superchat were recorded: two entries
C8_Witness ==
    /\ last_op = "record" /\ tts_autoplay
    /\ Len(tts_queue) = 2 /\ Len(msgs) = 2
    /\ tts_queue[1] = [msg |-> 1, mark |-> TRUE] /\ msgs[1].type = GUARD
    /\ tts_queue[2] = [msg |-> 2, mark |-> TRUE] /\ msgs[2].type = SUPERCHAT

\* with autoplay off the same two records left the queue empty
C8_WitnessOff ==
    /\ last_op = "record" /\ ~tts_autoplay
    /\ tts_queue = <<>> /\ Len(msgs) = 2 /\ Cardinality(UnreadKeys) = 2
    /\ \A t \in DOMAIN tasks : tasks[t].pc = "start"

\* C9: toggle_autoplay(off) leaves the queue empty and changes no read flag,
\* and the consumer takes an entry only from the head of the queue, so an
\* entry the toggle removed is never played.
C9_ToggleOffDrainsQueue ==
    [][/\ toggle_autoplay(FALSE) =>
            /\ tts_queue' = <<>>
            /\ msgs' = msgs
            /\ tts_playing' = tts_playing
            /\ tasks' = tasks
       /\ \A t \in DOMAIN tasks :
            (consumer_step(t) /\ Dequeues(t)) =>
               /\ tts_queue # <<>>
               /\ tasks'[t].msg = Head(tts_queue).msg
               /\ tts_queue' = Tail(tts_queue)]_vars

\* toggle_autoplay(off) has just removed two entries of unread events
C9_Witness ==
    /\ last_op = "toggle_off" /\ drained = 2
    /\ lock = "toggle_autoplay"
    /\ tts_queue = <<>> /\ ~tts_autoplay
    /\ Cardinality(UnreadKeys) = 2

\* C10: once stop() has returned and the consumer task has ended, tts_playing
\* is None.
C10_NothingPlayingAfterStop ==
    (~running /\ ~stopping /\ task # None /\ ~Alive(task)) => tts_playing = None

\* ------------------------------------------------------ locking properties
\* C16: state.lock is free whenever a task is suspended on an emit, a webhook,
\* a render or a sleep: every state of the model is such a suspension, and
\* lock names the socket handler that awaits its emit inside
\* `async with state.lock`.
C16_LockFreeAtEverySuspension == lock = "free"

\* --------------------------------------------------------- queue properties
Queued(i) == \E p \in 1..Len(tts_queue) : tts_queue[p].msg = i

\* C17: a manual play of an event that is already in the queue leaves the
\* queue as it is.
C17_ManualEnqueueIdempotent ==
    [][\A k \in TTSIds :
         (play_message(k) /\ k \in DOMAIN tts_messages /\ Queued(tts_messages[k]))
             => tts_queue' = tts_queue]_vars

\* C18: whatever puts an entry (record under autoplay, the seeding of
\* toggle-on, a manual play) puts it at the tail of the queue; the consumer
\* takes the entry at the head; the only other change of the queue is its
\* emptying by toggle-off or clear_queue.  Entries so leave in the order they
\* came in.
C18_QueueIsFifo ==
    [][\/ tts_queue' = tts_queue
       \/ \E i \in DOMAIN msgs', mark_read \in BOOLEAN :
             tts_queue' = Append(tts_queue, Entry(i, mark_read))
       \/ /\ tts_queue # <<>>
          /\ tts_queue' = Tail(tts_queue)
          /\ \E t \in DOMAIN tasks :
                /\ consumer_step(t)
                /\ tasks'[t].msg = Head(tts_queue).msg
                /\ tasks'[t].mark = Head(tts_queue).mark
       \/ /\ tts_queue' = <<>>
          /\ toggle_autoplay(FALSE) \/ clear_queue]_vars

\* the consumer announces event 1, which it took from the head; the entry of
\* event 2, recorded under autoplay, waits before the manual replay of event
\* 1, put last
C18_Witness ==
    /\ tts_autoplay
    /\ last_op = "play_message"
    /\ tts_queue = <<Entry(2, TRUE), Entry(1, TRUE)>>
    /\ \E t \in DOMAIN tasks : tasks[t].pc = "emit_now" /\ tasks[t].msg = 1

\* -------------------------------------------------------- parser properties
\* the line parse_line was called with is of a known kind and one of the
\* delimiters of that kind's sub-grammar occurs nowhere in its content
LacksDelimiter ==
    /\ built.tag \in MessageType
    /\ \E name \in Delimiters(built.tag) :
          find(LineContent(built), DelimiterChars(built.tag, name), 0) = -1

\* C19: parse_line returns a ParsedMessage or None and raises nothing; it
\* returns None for a line with an unknown kind tag and for a line of a known
\* kind that lacks a delimiter of that kind's sub-grammar.
C19_MalformedYieldsNone ==
    parsed.type # "not called" =>
        /\ parsed.type \in MessageType \cup {"None"}
        /\ built.tag \notin MessageType => parsed.type = "None"
        /\ LacksDelimiter => parsed.type = "None"

\* the line is a gift line with its timestamp, its tag and every delimiter
WellFormedGift ==
    /\ built.header \in {"ok", "bom"}
    /\ built.tag \in {FREE_GIFT, PAID_GIFT}
    /\ built.omit = {}

\* C20: from a well-formed gift line parse_line returns an event of the
\* line's kind with the user name, gift name, quantity and value the line was
\* written from, and a unique_id that is not empty and is made of the
\* timestamp, the user name and the kind.
C20_GiftFieldsRecovered ==
    (parsed.type # "not called" /\ WellFormedGift) =>
        /\ parsed.type = built.tag
        /\ parsed.username = built.username
        /\ parsed.gift_name = built.name
        /\ parsed.quantity = built.quantity
        /\ parsed.value = built.value
        /\ parsed.unique_id # <<>>
        /\ parsed.unique_id =
             isoformat(built.timestamp) \o <<"_">> \o built.username \o <<"_", built.tag>>

\* ------------------------------------------------------- webhook properties
\* C21: trigger_webhook makes an outbound POST exactly when its argument is
\* one of the three tiers, that tier's enable flag is true and that tier's URL
\* is not empty, and then to that URL; in every other case it returns False.
C21_PostOnlyWhenEnabledAndConfigured ==
    hook.type # "not called" =>
        /\ hook.posted # "none" <=>
              /\ hook.type \in Tiers
              /\ enable_webhook[hook.type]
              /\ webhook_urls[hook.type] # ""
        /\ hook.posted # "none" => hook.posted = webhook_urls[hook.type]
        /\ hook.posted = "none" => ~hook.result

\* the admiral webhook was posted while the captain tier, with a URL, is off
C21_Witness ==
    /\ hook.type = "admiral" /\ hook.posted = "https://hook" /\ hook.result
    /\ ~enable_webhook["captain"] /\ webhook_urls["captain"] # ""

\* a call for a disabled tier that has a URL
C21_WitnessRefused ==
    /\ hook.type = "captain" /\ hook.posted = "none"
    /\ ~enable_webhook["captain"] /\ webhook_urls["captain"] # ""

\* ------------------------------------------------ engine manager properties
\* C22: at most one engine that was constructed and not disposed exists at any
\* time, also while get_engine on the playback thread runs between the steps
\* of switch_engine or dispose_current on the event loop thread.
C22_AtMostOneEngine == Cardinality(live) <= 1

C24_TailedFileNeverMarked ==
    /\ [](\A f \in 1..Len(files) : Tailing(f) => f \notin processed_files)
    /\ [][\A f \in processed_files' \ processed_files :
            /\ ~(current_tail_file' = f /\ active_handle' = f)
            /\ \A n \in 1..files'[f] :
                 \E i \in 1..Len(delivered') : delivered'[i] = <<f, n>>]_vars

\* files 2 and 3 appeared while file 1 was tailed: 1 was finished and marked,
\* 2 was read in full and marked, 3 is tailed, has been read, and is unmarked
C24_Witness ==
    /\ Len(files) = 3 /\ files[2] = MaxLines
    /\ processed_files = {1, 2}
    /\ Tailing(3) /\ last_offset = 1
    /\ Delivered(2, MaxLines) /\ Delivered(3, 1)

\* the position of line <<f, n>> among the first k lines handed over, or 0
PlaceOf(seq, k, f, n) ==
    IF \E h \in 1..k : seq[h] = <<f, n>>
    THEN CHOOSE h \in 1..k : seq[h] = <<f, n>>
    ELSE 0

Waiting == {"start", "get", "delay", "backoff"}

\* the entry has a routing tag (msg.webhook_type)
RoutingTag(i) == msgs[i].type = GUARD /\ msgs[i].guard_type \in GUARD_CONFIG

C26_WitnessSecondSegment ==
    \E t \in DOMAIN tasks :
        /\ tasks[t].pc = "render" /\ tasks[t].seg = 2
        /\ tts_playing = tasks[t].msg

\* C27: a failed webhook or rendering call does not hold the consumer up: the
\* failing step changes no aggregate counter, and from it the consumer gets to
\* the wait after the entry, with the entry marked read if it was flagged and
\* tts_playing cleared, and then on to its next loop iteration.
C27_FailedCallDoesNotBlock ==
    /\ [][(failed' # failed /\ failed'.msg # 0) => UNCHANGED aggVars]_vars
    /\ (failed # NoFailure) ~>
         (\E t \in DOMAIN tasks :
             /\ tasks[t].pc = "delay"
             /\ failed # NoFailure
             /\ tts_playing = None
             /\ failed.mark => msgs[failed.msg].is_read)
    /\ (failed # NoFailure) ~> (failed = NoFailure)

\* a call has failed for a flagged entry, and the entry is complete: marked
\* read, tts_playing cleared, playback_complete emitted
C27_Witness ==
    /\ failed.msg # 0 /\ failed.mark
    /\ msgs[failed.msg].is_read
    /\ tts_playing = None
    /\ \E t \in DOMAIN tasks : tasks[t].pc = "delay"

\* ----------------------------------------- aggregate properties, continued
\* C28: whatever records and save_gift_config calls have happened, with any
\* integer goal, milestone_progress lies in [0, milestone_goal) and
\* milestone_progress + milestone_count * milestone_goal is the total
\* qualifying revenue, milestone_goal being the configured goal.
C28_InvariantUnderSavedGoals ==
    /\ 0 <= milestone_progress
    /\ milestone_progress < milestone_goal
    /\ milestone_progress + milestone_count * milestone_goal = revenue

\* C29: every add_message call leaves milestone_count equal or larger, and a
\* step that lowers milestone_count is a recalculate_milestones call with a
\* positive goal.
C29_CountLoweredOnlyByRecalc ==
    [][/\ last_op' = "record" => milestone_count' >= milestone_count
       /\ milestone_count' < milestone_count =>
            last_op' = "recalc" /\ last_goal' > 0]_vars

\* records went on after a recompute, and the count has grown to 2 or more
C29_Witness ==
    /\ last_op = "record" /\ ~records_only
    /\ milestone_count >= 2

\* recalculate_milestones(500) has just lowered the count that the records
\* against the configured goal of 50 had built up
C29_WitnessLowered ==
    /\ last_op = "recalc" /\ last_goal = DEFAULT_MILESTONE_GOAL
    /\ milestone_goal = Unit
    /\ milestone_count = 1 /\ replay[Unit][2] > 1

\* C30: recalculate_milestones leaves the three cumulative totals, the gift
\* count, the guard counts, the announcement queue, the member queue and the
\* history map as they are, and with new_goal <= 0 also milestone_count and
\* milestone_progress.
C30_RecalcFrame ==
    [][last_op' = "recalc" =>
          /\ UNCHANGED <<paid_gift_total_value, paid_gift_count,
                         superchat_total_value, membership_total_value,
                         guard_counts, total_guard_count>>
          /\ UNCHANGED <<tts_queue, member_queue, tts_messages, msgs,
                         tts_playing, tts_autoplay, milestone_goal>>
          /\ last_goal' <= 0 => UNCHANGED <<milestone_count, milestone_progress>>]_vars

\* a recompute with goal 0 after records: count and progress are still those
\* of the records against the configured goal
C30_Witness ==
    /\ last_op = "recalc" /\ last_goal = 0
    /\ revenue > 0 /\ msgs # <<>>
    /\ <<milestone_progress, milestone_count>> = replay[milestone_goal]
    /\ milestone_count > 0

\* a recompute with a positive goal that changed the pair and left the totals
C30_WitnessPositive ==
    /\ last_op = "recalc" /\ last_goal = Unit /\ milestone_goal = DEFAULT_MILESTONE_GOAL
    /\ milestone_count > 0 /\ TotalRevenue = revenue /\ revenue > 0
    /\ total_guard_count > 0

\* C31: every add_message call leaves its milestone loop and releases the
\* aggregate lock, whatever goal save_gift_config has stored: the lock is
\* never left held by a record call that does not return.
C31_RecordReleasesLock == lock # "add_message"

\* C32: within one run of the tailer no line is handed to _process_line more
\* than once, also after an error in the tail step.
C32_NoLineDeliveredTwice ==
    \A i, j \in 1..Len(delivered) : i # j => delivered[i] # delivered[j]

\* C33: every element the tail step hands to _process_line is a complete
\* line of the file, never the written part of a line that has no newline
\* yet (nor what is left of such a line).
C33_OnlyCompleteLinesDelivered ==
    \A i \in 1..Len(delivered) : Len(delivered[i]) = 2

\* ------------------------------------------- autoplay properties, continued
\* C34: if autoplay is on from some point on (so that no toggle-off drains
\* the queue after it) while the consumer runs, then from some point on no
\* event of the history map is unread: each one, also those recorded while
\* autoplay was off, has been played and marked read.
C34_AutoplayPlaysEveryUnread ==
    <>[](tts_autoplay /\ running) => <>[](UnreadKeys = {})

\* C35: the seeding of toggle_autoplay(on) never puts into the queue an event
\* that is being played (tts_playing) or that the queue already holds.
C35_SeedingNeverRequeues ==
    [][(last_op' \in {"toggle_on", "off_on"} /\ Len(tts_queue') > Len(tts_queue)) =>
          LET seeded == tts_queue'[Len(tts_queue')].msg
          IN  /\ seeded # tts_playing
              /\ \A k \in 1..Len(tts_queue) : tts_queue[k].msg # seeded]_vars

\* C36: whenever a running consumer waits in tts_queue.get(), tts_playing is
\* None, also when the iteration before ended in the except branch.
C36_IdleConsumerPlaysNothing ==
    \A t \in DOMAIN tasks :
        (Alive(t) /\ ~tasks[t].cancel /\ tasks[t].pc = "get") => tts_playing = None

\* C37: the in-memory processed set holds exactly the names of the on-disk
\* ledger, also after a mark_processed call whose write failed.
C37_ProcessedSetEqualsLedger == processed_files = LoadLedger

RECURSIVE SumCounts(_)
SumCounts(S) ==
    IF S = {} THEN 0
    ELSE LET g == CHOOSE x \in S : TRUE IN guard_counts[g] + SumCounts(S \ {g})

\* the durations of the guard events recorded so far
RecordedDurations == SumCounts(DOMAIN guard_counts)

\* C38: total_guard_count is initial_guard_count plus the durations of all
\* guard events recorded so far, whatever the order of the records and the
\* set_initial_guard_count calls.
C38_TotalIsInitialPlusRecorded ==
    total_guard_count = initial_guard_count + RecordedDurations

\* C39: in plugin mode add_message runs for the events in the order of their
\* delivery: the call for an earlier delivery is over before the call for a
\* later one starts.
C39_AddedInDeliveryOrder ==
    \A i, j \in 1..Len(added) : i < j => added[i] < added[j]

\* the events that are neither members nor superchats
FrameMessages == {e \in AggMessages : e.type \in {DM, FREE_GIFT, PAID_GIFT}}

\* C40: recording a text message or a free gift changes none of the totals,
\* the paid gift count, the guard counts, the milestone progress and count,
\* the announcement queue, the member queue and the history map; recording a
\* paid gift leaves all of these but the paid gift total, the paid gift count
\* and the milestone progress and count, and puts nothing into the
\* announcement queue.
C40_RecordFrame ==
    [][\A e \in FrameMessages :
          (last_op' = "record" /\ add_message(e)) =>
              /\ UNCHANGED <<superchat_total_value, membership_total_value,
                             guard_counts, total_guard_count, tts_queue,
                             member_queue, tts_messages>>
              /\ e.type # PAID_GIFT =>
                    UNCHANGED <<paid_gift_total_value, paid_gift_count,
                                milestone_progress, milestone_count>>]_vars

\* a paid gift has been recorded while autoplay is on: it is counted, the
\* milestone has moved, and no announcement waits
C40_Witness ==
    /\ last_op = "record"
    /\ tts_autoplay
    /\ paid_gift_count > 0
    /\ paid_gift_total_value > 0
    /\ milestone_progress + milestone_count > 0
    /\ tts_queue = <<>>

\* the last operation was a record, with autoplay on, of an event that is
\* neither retained nor counted: a text message or a free gift
C40_WitnessFree ==
    /\ last_op = "record"
    /\ tts_autoplay
    /\ msgs = <<>>
    /\ paid_gift_count = 0

====
